---- MODULE Spec2Model ----
(***************************************************************************)
(* uRing crawler: snapshot store (local filesystem and S3 backends),       *)
(* circuit breaker, notice crawler.                                        *)
(*                                                                         *)
(* Spec      - write_snapshot calls run one at a time against one store,   *)
(*             every filesystem / object-store step may fail.              *)
(***************************************************************************)
EXTENDS Integers, Sequences, FiniteSets, TLC

\* ---------------------------------------------------------------- bounds
NumWriters == 2
MaxNotices == 2
max_retries == 1

\* ---------------------------------------------------------------- inputs
Procs == 1..NumWriters
Backends == {"local", "s3"}
NoticeIds == {"a"}
Titles == {<<"k">>, <<"u", "p">>}
CampusNames == {"sinchon"}
BoardNames == {"notice"}
Notice == [id : NoticeIds, title : Titles, campus : CampusNames, board_name : BoardNames]
NoticeLists == UNION {[1..n -> Notice] : n \in 0..MaxNotices}
ErrorLists == {<<>>}
Outcomes == [notices : NoticeLists, errors : ErrorLists]

None == [kind |-> "none"]
Some(x) == [kind |-> "some", v |-> x]

\* ---------------------------------------------------------------- documents
Marker == [kind |-> "marker"]
Truncated == [kind |-> "truncated"]
SnapshotPointer(version) == [kind |-> "pointer", version |-> version]
NoticeDoc(n) == [kind |-> "notice", notice |-> n]
IndexDoc(items) == [kind |-> "index", items |-> items]
MetaDoc(name) == [kind |-> "meta", name |-> name]
DiffDoc(d) == [kind |-> "diff", diff |-> d]
StatsDoc == [kind |-> "stats"]
OutcomeDoc(o) == [kind |-> "outcome", notice_count |-> Len(o.notices), errors |-> o.errors]
ErrorsDoc(errs) == [kind |-> "errors", errors |-> errs]
SnapshotManifest(version, entries) == [kind |-> "manifest", version |-> version, entries |-> entries]

RECURSIVE SumTitles(_)
SumTitles(items) ==
    IF items = <<>> THEN 0 ELSE 3 + Len(Head(items).title) + SumTitles(Tail(items))

\* number of bytes of the serialised document
ByteCount(d) ==
    CASE d.kind = "marker" -> 0
      [] d.kind = "truncated" -> 1
      [] d.kind = "pointer" -> 8
      [] d.kind = "notice" -> 6 + Len(d.notice.title)
      [] d.kind = "index" -> 2 + SumTitles(d.items)
      [] d.kind = "meta" -> 4
      [] d.kind = "diff" -> 2 + Len(d.diff.added) + Len(d.diff.updated) + Len(d.diff.removed)
      [] d.kind = "stats" -> 5
      [] d.kind = "outcome" -> 7 + Len(d.errors)
      [] d.kind = "errors" -> 2 + Len(d.errors)
      [] d.kind = "manifest" -> 9 + 4 * Len(d.entries)
      [] OTHER -> 0

sha256_hex(d) == [digest |-> d]

ManifestEntry(key, bytes) ==
    [key |-> key, bytes |-> ByteCount(bytes), sha256 |-> sha256_hex(bytes)]

\* ---------------------------------------------------------------- keys
pointer_key == <<0, "", "latest", "json">>
previous_pointer_key == <<0, "", "previous", "json">>
in_progress_key(v) == <<v, "", "_IN_PROGRESS", "">>
success_key(v) == <<v, "", "_SUCCESS", "">>
manifest_key(v) == <<v, "", "_manifest", "json">>
detail_key(v, id) == <<v, "detail", id, "json">>
index_key(v, name) == <<v, "index", name, "json">>
campus_index_key(v, c) == <<v, "index/campus", c, "json">>
category_index_key(v, c) == <<v, "index/category", c, "json">>
meta_key(v, name) == <<v, "meta", name, "json">>
aux_key(v, name) == <<v, "aux", name, "json">>
with_extension(k) == <<k[1], k[2], k[3], "tmp">>

DirOrder == <<"", "aux", "detail", "index", "index/campus", "index/category", "meta">>
\* every name the model uses, in the byte order Rust compares strings in
StringOrder == <<"_IN_PROGRESS", "_SUCCESS", "_manifest", "a", "academic", "all", "b", "c",
                 "campus", "category", "diff", "errors", "latest", "notice", "other",
                 "outcome", "previous", "scholarship", "sinchon", "source", "stats">>
RankIn(seq, x) == CHOOSE i \in 1..Len(seq) : seq[i] = x
\* String comparison of two keys of one snapshot (directory first, then file name).
KeyLess(k1, k2) ==
    \/ RankIn(DirOrder, k1[2]) < RankIn(DirOrder, k2[2])
    \/ /\ k1[2] = k2[2]
       /\ RankIn(StringOrder, k1[3]) < RankIn(StringOrder, k2[3])

\* ---------------------------------------------------------------- storage
Exists(f, k) == k \in DOMAIN f
PutObject(f, k, d) == [x \in DOMAIN f \cup {k} |-> IF x = k THEN d ELSE f[x]]
RemoveObject(f, k) == [x \in DOMAIN f \ {k} |-> f[x]]
RenameObject(f, from, to) == RemoveObject(PutObject(f, to, f[from]), from)
EmptyStore == [x \in {} |-> Marker]


\* ---------------------------------------------------------------- write_snapshot: pure parts
Version(p) == p

map_category(board_name) ==
    CASE board_name = "haksa" -> "academic"
      [] board_name = "janghak" -> "scholarship"
      [] OTHER -> "other"

content_hash(n) == [digest |-> <<n.title, n.board_name>>]

IndexItemFrom(n) ==
    [id |-> n.id, title |-> n.title, category |-> map_category(n.board_name),
     content_hash |-> Some(content_hash(n))]

MapSeq(f(_), s) == [i \in 1..Len(s) |-> f(s[i])]
IndexItems(notices) == MapSeq(IndexItemFrom, notices)
SeqRange(s) == {s[i] : i \in 1..Len(s)}

\* value a HashMap built by collect() holds for key id: the last pair wins
LastWith(items, id) ==
    items[CHOOSE i \in 1..Len(items) :
              /\ items[i].id = id
              /\ \A j \in (i + 1)..Len(items) : items[j].id # id]

RECURSIVE InsertSorted(_, _, _)
InsertSorted(Less(_, _), x, s) ==
    IF s = <<>> THEN <<x>>
    ELSE IF Less(x, Head(s)) THEN <<x>> \o s
    ELSE <<Head(s)>> \o InsertSorted(Less, x, Tail(s))

\* stable sort (slice::sort, slice::sort_by)
RECURSIVE SortBy(_, _)
SortBy(Less(_, _), s) ==
    IF s = <<>> THEN <<>>
    ELSE InsertSorted(Less, s[Len(s)], SortBy(Less, SubSeq(s, 1, Len(s) - 1)))

IdLess(x, y) == RankIn(StringOrder, x) < RankIn(StringOrder, y)
EntryLess(e1, e2) == KeyLess(e1.key, e2.key)

\* one iteration order of a hash set
RECURSIVE HashOrder(_)
HashOrder(S) ==
    IF S = {} THEN <<>>
    ELSE LET m == CHOOSE x \in S : \A y \in S : ~IdLess(x, y)
         IN  <<m>> \o HashOrder(S \ {m})

\* a diff that reports nothing
ComputeDiffNothing(previous_items, index_items) ==
    [added |-> <<>>, updated |-> <<>>, removed |-> <<>>]

\* a diff that takes no notice of the previous index
ComputeDiffAllAdded(previous_items, index_items) ==
    [added |-> SortBy(IdLess, HashOrder({index_items[i].id : i \in 1..Len(index_items)})),
     updated |-> <<>>,
     removed |-> <<>>]

\* a diff that takes a previous item without content hash for a changed one
ComputeDiffHashless(previous_items, index_items) ==
    LET prev_ids == {previous_items[i].id : i \in 1..Len(previous_items)}
        previous_items_map == [id \in prev_ids |-> LastWith(previous_items, id).content_hash]
        current_ids == {index_items[i].id : i \in 1..Len(index_items)}
        updated == {id \in current_ids :
                       /\ id \in prev_ids
                       /\ previous_items_map[id] # LastWith(index_items, id).content_hash}
    IN  [added |-> SortBy(IdLess, HashOrder(current_ids \ prev_ids)),
         updated |-> SortBy(IdLess, HashOrder(updated)),
         removed |-> SortBy(IdLess, HashOrder(prev_ids \ current_ids))]

ComputeDiff(previous_items, index_items) ==
    LET prev_ids == {previous_items[i].id : i \in 1..Len(previous_items)}
        previous_items_map == [id \in prev_ids |-> LastWith(previous_items, id).content_hash]
        current_ids == {index_items[i].id : i \in 1..Len(index_items)}
        hashed == SelectSeq(index_items, LAMBDA it : it.content_hash # None)
        hashed_ids == {hashed[i].id : i \in 1..Len(hashed)}
        current_hashes == [id \in hashed_ids |-> LastWith(hashed, id).content_hash.v]
        added == {id \in current_ids : id \notin prev_ids}
        updated == {id \in current_ids :
                       /\ id \in prev_ids
                       /\ previous_items_map[id] # None
                       /\ id \in hashed_ids
                       /\ current_hashes[id] # previous_items_map[id].v}
        removed == {id \in prev_ids : id \notin current_ids}
    IN  [added |-> SortBy(IdLess, HashOrder(added)),
         updated |-> SortBy(IdLess, HashOrder(updated)),
         removed |-> SortBy(IdLess, HashOrder(removed))]

CampusSeq(notices) ==
    LET ids == {notices[i].id : i \in 1..Len(notices)}
    IN  HashOrder({LastWith(notices, id).campus : id \in ids})
CategorySeq(notices) ==
    HashOrder({map_category(notices[i].board_name) : i \in 1..Len(notices)})
CampusItems(notices, c) ==
    SelectSeq(IndexItems(notices), LAMBDA it : LastWith(notices, it.id).campus = c)
CategoryItems(notices, c) ==
    SelectSeq(IndexItems(notices), LAMBDA it : it.category = c)

\* ---------------------------------------------------------------- write_snapshot: phases
\* the pointer swap moved ahead of the manifest and the _SUCCESS marker
PhaseOrderPointerFirst ==
    <<"in_progress", "read_pointer", "read_prev_index", "detail", "index_all",
      "index_campus", "index_category", "meta_campus", "meta_category", "meta_source",
      "aux_diff", "aux_stats", "aux_outcome", "aux_errors", "previous", "latest",
      "manifest", "success", "rm_in_progress">>
\* the _SUCCESS marker written ahead of the manifest
PhaseOrderSuccessEarly ==
    <<"in_progress", "read_pointer", "read_prev_index", "detail", "index_all",
      "index_campus", "index_category", "meta_campus", "meta_category", "meta_source",
      "aux_diff", "aux_stats", "aux_outcome", "aux_errors", "success", "manifest",
      "rm_in_progress", "previous", "latest">>
\* the manifest written ahead of the aux files
PhaseOrderManifestEarly ==
    <<"in_progress", "read_pointer", "read_prev_index", "detail", "index_all",
      "index_campus", "index_category", "meta_campus", "meta_category", "meta_source",
      "manifest", "aux_diff", "aux_stats", "aux_outcome", "aux_errors", "success",
      "rm_in_progress", "previous", "latest">>
PhaseOrder ==
    <<"in_progress", "read_pointer", "read_prev_index", "detail", "index_all",
      "index_campus", "index_category", "meta_campus", "meta_category", "meta_source",
      "aux_diff", "aux_stats", "aux_outcome", "aux_errors", "manifest", "success",
      "rm_in_progress", "previous", "latest">>
ReadPhases == {"read_pointer", "read_prev_index", "rm_in_progress"}
EntryPhases ==
    {"detail", "index_all", "index_campus", "index_category", "meta_campus",
     "meta_category", "meta_source", "aux_diff", "aux_stats", "aux_outcome", "aux_errors"}
Parallel(phase) == phase = "detail"
GroupOf(phase) ==
    CASE phase = "in_progress" -> "_IN_PROGRESS"
      [] phase = "detail" -> "detail"
      [] phase \in {"index_all", "index_campus", "index_category"} -> "index"
      [] phase \in {"meta_campus", "meta_category", "meta_source"} -> "meta"
      [] phase \in {"aux_diff", "aux_stats", "aux_outcome", "aux_errors"} -> "aux"
      [] phase = "manifest" -> "_manifest"
      [] phase = "success" -> "_SUCCESS"
      [] phase = "previous" -> "previous"
      [] phase = "latest" -> "latest"
      [] OTHER -> "none"

\* number of objects a phase writes
NJobs(phase, o, ptr) ==
    CASE phase = "detail" -> Len(o.notices)
      [] phase = "index_campus" -> Len(CampusSeq(o.notices))
      [] phase = "index_category" -> Len(CategorySeq(o.notices))
      [] phase = "aux_errors" -> IF o.errors # <<>> THEN 1 ELSE 0
      [] phase = "previous" -> IF ptr # None THEN 1 ELSE 0
      [] phase \in ReadPhases -> 0
      [] OTHER -> 1
Active(phase, o, ptr) ==
    CASE phase = "read_prev_index" -> ptr # None
      [] phase \in ReadPhases -> TRUE
      [] OTHER -> NJobs(phase, o, ptr) > 0
NextPhase(phase, o, ptr) ==
    LET i == RankIn(PhaseOrder, phase)
        later == {j \in (i + 1)..Len(PhaseOrder) : Active(PhaseOrder[j], o, ptr)}
    IN  IF later = {} THEN "ok"
        ELSE PhaseOrder[CHOOSE j \in later : \A k \in later : j <= k]


\* ---------------------------------------------------------------- state
VARIABLES
    backend,           \* "local" (LocalStorage) or "s3" (S3Storage)
    fs,                \* the store: key -> document, for the keys that exist
    pc,                \* per write_snapshot call: its position
    input,             \* per call: the CrawlOutcome passed in
    previous_pointer,  \* per call: local previous_pointer
    previous_items,    \* per call: local previous_items
    manifest_entries,  \* per call: local manifest_entries
    jobs,              \* per call: the object writes of the current phase
    log,               \* per call: groups of the objects written so far, in order
    start_latest,      \* per call: what latest.json held when the call began
    ld_pc,             \* load_snapshot: position of the reader
    ld_pointer,        \* load_snapshot: what read_json_optional(latest.json) returned
    ld_success,        \* load_snapshot: what object_exists(_SUCCESS) returned
    ld_result,         \* load_snapshot: the returned list
    cb_config,         \* circuit breaker: its CircuitBreakerConfig
    cb_current,        \* circuit breaker: current.len()
    cb_previous,       \* circuit breaker: previous.len()
    cb_result,         \* circuit breaker: what check returned
    cb_verdict,        \* circuit breaker: what validate returned
    decision,          \* per crawl run: what the circuit breaker decided
    cr_site,           \* fetch_all: the boards of the site map, flattened
    cr_pc,             \* fetch_all: position
    cr_cache,          \* fetch_all: selector_cache
    cr_invalid,        \* fetch_all: invalid_boards
    cr_jobs,           \* fetch_all: board_jobs, as indexes into the site map
    cr_pending,        \* fetch_all: the board jobs still in the stream
    cr_buffer,         \* fetch_all: notice_buffer
    cr_outcome,        \* fetch_all: outcome
    cr_log,            \* fetch_all: the calls of fetch_board_list made so far
    put_max,           \* put_bytes_with_retry: self.max_retries
    put_pc,            \* put_bytes_with_retry: position
    put_retries,       \* put_bytes_with_retry: local retries
    put_attempts,      \* put_bytes_with_retry: the results of request.send() so far
    disc_pc,           \* discover: position
    disc_document,     \* discover: the links of the department homepage
    disc_sitemap,      \* discover: what find_sitemap returns, the links of the sitemap page
    disc_homepage_boards, \* discover: local homepage_boards
    disc_sitemap_boards,  \* discover: local sitemap_boards
    disc_result,       \* discover: the BoardDiscoveryResult
    diff_calculator,   \* diff: the DiffCalculator
    diff_previous,     \* diff: the notices of the previous snapshot
    diff_current,      \* diff: the notices of the current snapshot
    diff_result,       \* diff: what DiffCalculator::calculate returned
    diff_aux,          \* diff: the Diff write_snapshot computed for aux/diff.json
    diff_stored,       \* diff: the items of the previous index/all.json as read back
    s3_prefix,         \* S3Storage: self.prefix
    s3_keys,           \* S3Storage: the objects accessed so far, with their final keys
    cid_a,             \* canonical_id: a notice
    cid_b,             \* canonical_id: a second notice
    cid_hash,          \* canonical_id: the first 6 hex characters of SHA-256, per digest input
    cid_ids,           \* canonical_id: the ids computed for the two notices
    cfg_config,        \* Config: the configuration to validate
    cfg_result,        \* Config: what validate returned
    idx_notices,       \* index: the notices given to build_index
    idx_builder,       \* index: the IndexBuilder (index, notice_count)
    idx_result         \* index: the InvertedIndex build returned

storeVars == <<backend, fs, pc, input, previous_pointer, previous_items,
               manifest_entries, jobs, log, start_latest>>
loadVars == <<ld_pc, ld_pointer, ld_success, ld_result>>
cbVars == <<cb_config, cb_current, cb_previous, cb_result, cb_verdict>>
pipeVars == <<decision>>
crawlVars == <<cr_site, cr_pc, cr_cache, cr_invalid, cr_jobs, cr_pending, cr_buffer,
               cr_outcome, cr_log>>
putVars == <<put_max, put_pc, put_retries, put_attempts>>
discVars == <<disc_pc, disc_document, disc_sitemap, disc_homepage_boards,
              disc_sitemap_boards, disc_result>>
diffVars == <<diff_calculator, diff_previous, diff_current, diff_result, diff_aux, diff_stored>>
keyVars == <<s3_prefix, s3_keys>>
cidVars == <<cid_a, cid_b, cid_hash, cid_ids>>
cfgVars == <<cfg_config, cfg_result>>
idxVars == <<idx_notices, idx_builder, idx_result>>
lateVars == <<keyVars, cidVars, cfgVars, idxVars>>
notKeyVars == <<cidVars, cfgVars, idxVars>>
notCidVars == <<keyVars, cfgVars, idxVars>>
notCfgVars == <<keyVars, cidVars, idxVars>>
notIdxVars == <<keyVars, cidVars, cfgVars>>
earlyVars == <<storeVars, loadVars, cbVars, pipeVars, crawlVars, putVars, discVars, diffVars>>
moreVars == <<putVars, discVars, diffVars, lateVars>>
nonStoreVars == <<loadVars, cbVars, pipeVars, crawlVars, moreVars>>
notLoadVars == <<storeVars, cbVars, pipeVars, crawlVars, moreVars>>
notCbVars == <<storeVars, loadVars, pipeVars, crawlVars, moreVars>>
notCrawlVars == <<storeVars, loadVars, cbVars, pipeVars, moreVars>>
vars == <<storeVars, nonStoreVars>>

FirstStep == IF backend = "local" THEN "tmp" ELSE "put"
JobsInit(n) == [j \in 1..n |-> [step |-> FirstStep, retries |-> 0]]
Finished(job) == job.step \in {"done", "failed"}
Untouched(job) == job.step = FirstStep /\ job.retries = 0
Running(p) == pc[p] \notin {"idle", "ok", "err", "aborted"}

ReadOptional(k) == IF Exists(fs, k) THEN Some(fs[k]) ELSE None

\* key and bytes of job j of the phase call p is in
JobKey(p, j) ==
    LET v == Version(p)
        ph == pc[p]
        ns == input[p].notices
    IN  CASE ph = "in_progress" -> in_progress_key(v)
          [] ph = "detail" -> detail_key(v, ns[j].id)
          [] ph = "index_all" -> index_key(v, "all")
          [] ph = "index_campus" -> campus_index_key(v, CampusSeq(ns)[j])
          [] ph = "index_category" -> category_index_key(v, CategorySeq(ns)[j])
          [] ph = "meta_campus" -> meta_key(v, "campus")
          [] ph = "meta_category" -> meta_key(v, "category")
          [] ph = "meta_source" -> meta_key(v, "source")
          [] ph = "aux_diff" -> aux_key(v, "diff")
          [] ph = "aux_stats" -> aux_key(v, "stats")
          [] ph = "aux_outcome" -> aux_key(v, "outcome")
          [] ph = "aux_errors" -> aux_key(v, "errors")
          [] ph = "manifest" -> manifest_key(v)
          [] ph = "success" -> success_key(v)
          [] ph = "previous" -> previous_pointer_key
          [] ph = "latest" -> pointer_key

JobBytes(p, j) ==
    LET v == Version(p)
        ph == pc[p]
        ns == input[p].notices
    IN  CASE ph = "in_progress" -> Marker
          [] ph = "detail" -> NoticeDoc(ns[j])
          [] ph = "index_all" -> IndexDoc(IndexItems(ns))
          [] ph = "index_campus" -> IndexDoc(CampusItems(ns, CampusSeq(ns)[j]))
          [] ph = "index_category" -> IndexDoc(CategoryItems(ns, CategorySeq(ns)[j]))
          [] ph = "meta_campus" -> MetaDoc("campus")
          [] ph = "meta_category" -> MetaDoc("category")
          [] ph = "meta_source" -> MetaDoc("source")
          [] ph = "aux_diff" -> DiffDoc(ComputeDiff(previous_items[p], IndexItems(ns)))
          [] ph = "aux_stats" -> StatsDoc
          [] ph = "aux_outcome" -> OutcomeDoc(input[p])
          [] ph = "aux_errors" -> ErrorsDoc(input[p].errors)
          [] ph = "manifest" ->
                 SnapshotManifest(v, SortBy(EntryLess, manifest_entries[p]))
          [] ph = "success" -> Marker
          [] ph = "previous" -> previous_pointer[p].v
          [] ph = "latest" -> SnapshotPointer(v)

StoreInit ==
    /\ backend \in Backends
    /\ fs = EmptyStore
    /\ pc = [p \in Procs |-> "idle"]
    /\ input = [p \in Procs |-> [notices |-> <<>>, errors |-> <<>>]]
    /\ previous_pointer = [p \in Procs |-> None]
    /\ previous_items = [p \in Procs |-> <<>>]
    /\ manifest_entries = [p \in Procs |-> <<>>]
    /\ jobs = [p \in Procs |-> <<>>]
    /\ log = [p \in Procs |-> <<>>]
    /\ start_latest = [p \in Procs |-> None]

LoadIdle ==
    /\ ld_pc = "idle"
    /\ ld_pointer = None
    /\ ld_success = FALSE
    /\ ld_result = <<>>

\* CircuitBreakerConfig::default()
DefaultCircuitBreakerConfig ==
    [max_drop_percent |-> 20, min_baseline |-> 10, allow_cold_start |-> TRUE]

CbIdle ==
    /\ cb_config = DefaultCircuitBreakerConfig
    /\ cb_current = 0
    /\ cb_previous = 0
    /\ cb_result = None
    /\ cb_verdict = None

PipeIdle == decision = [p \in Procs |-> None]

\* CrawlOutcome::default()
DefaultCrawlOutcome ==
    [notices |-> <<>>, board_total |-> 0, board_failures |-> 0, notice_total |-> 0,
     notice_failures |-> 0, detail_total |-> 0, detail_failures |-> 0, errors |-> <<>>]

CrawlStart ==
    /\ cr_pc = "start"
    /\ cr_cache = <<>>
    /\ cr_invalid = {}
    /\ cr_jobs = <<>>
    /\ cr_pending = {}
    /\ cr_buffer = <<>>
    /\ cr_outcome = DefaultCrawlOutcome
    /\ cr_log = <<>>

CrawlIdle == cr_site = <<>> /\ CrawlStart

PutStart ==
    /\ put_pc = "send"
    /\ put_retries = 0
    /\ put_attempts = <<>>

PutIdle == put_max = max_retries /\ PutStart

\* BoardDiscoveryResult::default()
DefaultBoardDiscoveryResult == [boards |-> <<>>, manual_review |-> None]

DiscStart ==
    /\ disc_pc = "start"
    /\ disc_homepage_boards = <<>>
    /\ disc_sitemap_boards = <<>>
    /\ disc_result = DefaultBoardDiscoveryResult

DiscIdle == disc_document = <<>> /\ disc_sitemap = None /\ DiscStart

DiffStart == diff_result = None /\ diff_aux = None

DiffIdle ==
    /\ diff_calculator = [detect_updates |-> TRUE]
    /\ diff_previous = <<>>
    /\ diff_current = <<>>
    /\ diff_stored = <<>>
    /\ DiffStart

KeyIdle == s3_prefix = <<>> /\ s3_keys = <<>>

NoNotice == [campus |-> <<>>, department_id |-> <<>>, board_id |-> <<>>,
             source_id |-> <<>>, link |-> <<>>, date |-> <<>>]

CidIdle == cid_a = NoNotice /\ cid_b = NoNotice /\ cid_hash = <<>> /\ cid_ids = <<>>

CfgIdle == cfg_config = <<>> /\ cfg_result = <<>>

\* IndexBuilder::with_config
NewIndexBuilder == [index |-> <<>>, notice_count |-> 0]

IdxIdle == idx_notices = <<>> /\ idx_builder = NewIndexBuilder /\ idx_result = None

LateIdle == KeyIdle /\ CidIdle /\ CfgIdle /\ IdxIdle

EarlyIdle ==
    /\ StoreInit
    /\ LoadIdle
    /\ CbIdle
    /\ PipeIdle
    /\ CrawlIdle
    /\ PutIdle
    /\ DiscIdle
    /\ DiffIdle

MoreIdle == PutIdle /\ DiscIdle /\ DiffIdle /\ LateIdle

Init == StoreInit /\ LoadIdle /\ CbIdle /\ PipeIdle /\ CrawlIdle /\ MoreIdle

\* call p moves to the phase after its current one
Enter(p, phase, ptr) ==
    /\ pc' = [pc EXCEPT ![p] = phase]
    /\ jobs' = [jobs EXCEPT ![p] =
                   IF phase \in {"ok", "err"} THEN <<>>
                   ELSE JobsInit(NJobs(phase, input[p], ptr))]

\* write_snapshot is called (calls are serialised by the caller)
Ready(p) ==
    /\ pc[p] = "idle"
    /\ \A q \in Procs : q < p => pc[q] \in {"ok", "err", "aborted"}

Begin(p, o) ==
    /\ Ready(p)
    /\ input' = [input EXCEPT ![p] = o]
    /\ start_latest' = [start_latest EXCEPT ![p] = ReadOptional(pointer_key)]
    /\ pc' = [pc EXCEPT ![p] = "in_progress"]
    /\ jobs' = [jobs EXCEPT ![p] = JobsInit(1)]
    /\ UNCHANGED <<backend, fs, previous_pointer, previous_items, manifest_entries, log, nonStoreVars>>

\* job j of call p may take a step
CanStep(p, j) ==
    /\ Running(p)
    /\ pc[p] \notin ReadPhases
    /\ j \in DOMAIN jobs[p]
    /\ ~Finished(jobs[p][j])
    /\ Parallel(pc[p]) \/ \A i \in DOMAIN jobs[p] \ {j} :
                              Finished(jobs[p][i]) \/ Untouched(jobs[p][i])

\* job j of call p ends, written or failed: `?` on a sequential write returns at
\* once, the detail stream is collected whole before its results are examined
Settle(p, j, ok) ==
    LET now == [jobs[p] EXCEPT ![j].step = IF ok THEN "done" ELSE "failed"]
        anyFailed == \E i \in DOMAIN now : now[i].step = "failed"
        allDone == \A i \in DOMAIN now : Finished(now[i])
        entries == IF ok /\ pc[p] \in EntryPhases
                   THEN Append(manifest_entries[p], ManifestEntry(JobKey(p, j), JobBytes(p, j)))
                   ELSE manifest_entries[p]
    IN  /\ manifest_entries' = [manifest_entries EXCEPT ![p] = entries]
        /\ log' = [log EXCEPT ![p] = IF ok THEN Append(@, GroupOf(pc[p])) ELSE @]
        /\ IF anyFailed /\ (~Parallel(pc[p]) \/ allDone)
           THEN Enter(p, "err", previous_pointer[p])
           ELSE IF allDone
           THEN Enter(p, NextPhase(pc[p], input[p], previous_pointer[p]), previous_pointer[p])
           ELSE /\ jobs' = [jobs EXCEPT ![p] = now]
                /\ UNCHANGED pc
        /\ UNCHANGED <<backend, input, previous_pointer, previous_items, start_latest, nonStoreVars>>

SetStep(p, j, step) ==
    /\ jobs' = [jobs EXCEPT ![p][j].step = step]
    /\ UNCHANGED <<backend, pc, input, previous_pointer, previous_items,
                   manifest_entries, log, start_latest, nonStoreVars>>

\* ---- LocalStorage::write_atomic
\* File::create(tmp), write_all, flush; then path.exists() is evaluated
LocalWriteTmp(p, j) ==
    /\ backend = "local"
    /\ CanStep(p, j)
    /\ jobs[p][j].step = "tmp"
    /\ fs' = PutObject(fs, with_extension(JobKey(p, j)), JobBytes(p, j))
    /\ SetStep(p, j, IF Exists(fs, JobKey(p, j)) THEN "remove" ELSE "rename")

\* create fails (nothing written), or write_all / flush fails (a truncated tmp file)
LocalWriteTmpFail(p, j) ==
    /\ backend = "local"
    /\ CanStep(p, j)
    /\ jobs[p][j].step = "tmp"
    /\ \/ fs' = fs
       \/ fs' = PutObject(fs, with_extension(JobKey(p, j)),
                          IF JobBytes(p, j) = Marker THEN Marker ELSE Truncated)
    /\ Settle(p, j, FALSE)

\* let _ = remove_file(path): the result is ignored
LocalRemoveOld(p, j) ==
    /\ backend = "local"
    /\ CanStep(p, j)
    /\ jobs[p][j].step = "remove"
    /\ \/ fs' = RemoveObject(fs, JobKey(p, j))
       \/ fs' = fs
    /\ SetStep(p, j, "rename")

LocalRename(p, j) ==
    /\ backend = "local"
    /\ CanStep(p, j)
    /\ jobs[p][j].step = "rename"
    /\ Exists(fs, with_extension(JobKey(p, j)))
    /\ fs' = RenameObject(fs, with_extension(JobKey(p, j)), JobKey(p, j))
    /\ Settle(p, j, TRUE)

LocalRenameFail(p, j) ==
    /\ backend = "local"
    /\ CanStep(p, j)
    /\ jobs[p][j].step = "rename"
    /\ fs' = fs
    /\ Settle(p, j, FALSE)

\* ---- S3Storage::put_bytes_with_retry
S3Put(p, j) ==
    /\ backend = "s3"
    /\ CanStep(p, j)
    /\ fs' = PutObject(fs, JobKey(p, j), JobBytes(p, j))
    /\ Settle(p, j, TRUE)

\* a 429, 5xx, timeout or dispatch failure with retries left
S3PutRetry(p, j) ==
    /\ backend = "s3"
    /\ CanStep(p, j)
    /\ jobs[p][j].retries < max_retries
    /\ jobs' = [jobs EXCEPT ![p][j].retries = @ + 1]
    /\ UNCHANGED <<backend, fs, pc, input, previous_pointer, previous_items,
                   manifest_entries, log, start_latest, nonStoreVars>>

\* a fatal status, or a transient one with the retries used up
S3PutFail(p, j) ==
    /\ backend = "s3"
    /\ CanStep(p, j)
    /\ fs' = fs
    /\ Settle(p, j, FALSE)

\* ---- reads and the best-effort delete of write_snapshot
ReadPointer(p) ==
    /\ pc[p] = "read_pointer"
    /\ LET ptr == ReadOptional(pointer_key)
       IN  /\ ptr # None => ptr.v.kind = "pointer"
           /\ previous_pointer' = [previous_pointer EXCEPT ![p] = ptr]
           /\ Enter(p, NextPhase("read_pointer", input[p], ptr), ptr)
    /\ UNCHANGED <<backend, fs, input, previous_items, manifest_entries, log, start_latest, nonStoreVars>>

ReadPreviousIndex(p) ==
    /\ pc[p] = "read_prev_index"
    /\ LET old == ReadOptional(index_key(previous_pointer[p].v.version, "all"))
       IN  /\ old # None => old.v.kind = "index"
           /\ previous_items' = [previous_items EXCEPT ![p] =
                                    IF old = None THEN <<>> ELSE old.v.items]
    /\ Enter(p, NextPhase("read_prev_index", input[p], previous_pointer[p]),
             previous_pointer[p])
    /\ UNCHANGED <<backend, fs, input, previous_pointer, manifest_entries, log, start_latest, nonStoreVars>>

\* a read fails (I/O or S3 error other than not-found)
ReadFail(p) ==
    /\ pc[p] \in {"read_pointer", "read_prev_index"}
    /\ Enter(p, "err", previous_pointer[p])
    /\ UNCHANGED <<backend, fs, input, previous_pointer, previous_items,
                   manifest_entries, log, start_latest, nonStoreVars>>

RemoveInProgress(p) ==
    /\ pc[p] = "rm_in_progress"
    /\ \/ fs' = RemoveObject(fs, in_progress_key(Version(p)))
       \/ fs' = fs
    /\ Enter(p, NextPhase("rm_in_progress", input[p], previous_pointer[p]),
             previous_pointer[p])
    /\ UNCHANGED <<backend, input, previous_pointer, previous_items,
                   manifest_entries, log, start_latest, nonStoreVars>>

WriteStep(p, j) ==
    \/ LocalWriteTmp(p, j)
    \/ LocalWriteTmpFail(p, j)
    \/ LocalRemoveOld(p, j)
    \/ LocalRename(p, j)
    \/ LocalRenameFail(p, j)
    \/ S3Put(p, j)
    \/ S3PutRetry(p, j)
    \/ S3PutFail(p, j)

Next ==
    \/ \E p \in Procs, o \in Outcomes : Begin(p, o)
    \/ \E p \in Procs, j \in 1..MaxNotices : WriteStep(p, j)
    \/ \E p \in Procs : ReadPointer(p)
    \/ \E p \in Procs : ReadPreviousIndex(p)
    \/ \E p \in Procs : ReadFail(p)
    \/ \E p \in Procs : RemoveInProgress(p)

Spec == Init /\ [][Next]_vars


\* ---------------------------------------------------------------- snapshot store: properties
Latest == ReadOptional(pointer_key)
Committed(v) == Exists(fs, success_key(v))

\* C1: at every point during and after write_snapshot, on both backends and also
\* when a write fails and the call returns an error, latest.json names a version
\* only if that version's _SUCCESS marker exists.
C1_LatestNamesCommitted ==
    Latest # None =>
        /\ Latest.v.kind = "pointer"
        /\ Committed(Latest.v.version)

\* a later call failed before its _SUCCESS while latest.json names the earlier version
C1_Witness ==
    \E p \in Procs :
        /\ pc[p] = "err"
        /\ ~Committed(Version(p))
        /\ Exists(fs, in_progress_key(Version(p)))
        /\ Latest # None
        /\ Latest.v.version # Version(p)

\* C2: whenever _SUCCESS of a version exists, its _manifest.json exists and every
\* entry it lists names an object that is present with the recorded byte count
\* and SHA-256.
C2_ManifestMatchesObjects ==
    \A v \in Procs :
        Committed(v) =>
            /\ Exists(fs, manifest_key(v))
            /\ fs[manifest_key(v)].kind = "manifest"
            /\ \A i \in 1..Len(fs[manifest_key(v)].entries) :
                   LET e == fs[manifest_key(v)].entries[i]
                   IN  /\ Exists(fs, e.key)
                       /\ ByteCount(fs[e.key]) = e.bytes
                       /\ sha256_hex(fs[e.key]) = e.sha256

GroupOrder ==
    <<"_IN_PROGRESS", "detail", "index", "meta", "aux", "_manifest", "_SUCCESS",
      "previous", "latest">>
GroupRank(g) == RankIn(GroupOrder, g)
Repeat(g, n) == [i \in 1..n |-> g]
ExpectedLog(o, hadPointer) ==
    <<"_IN_PROGRESS">>
    \o Repeat("detail", Len(o.notices))
    \o Repeat("index", 1 + Cardinality({o.notices[i].campus : i \in 1..Len(o.notices)})
                         + Cardinality({map_category(o.notices[i].board_name) :
                                            i \in 1..Len(o.notices)}))
    \o Repeat("meta", 3)
    \o Repeat("aux", 3 + (IF o.errors # <<>> THEN 1 ELSE 0))
    \o <<"_manifest", "_SUCCESS">>
    \o (IF hadPointer THEN <<"previous">> ELSE <<>>)
    \o <<"latest">>
\* the group a key of a snapshot directory belongs to (a tmp file with its target)
KeyGroup(k) ==
    CASE k[2] = "" -> k[3]
      [] k[2] \in {"index", "index/campus", "index/category"} -> "index"
      [] OTHER -> k[2]
\* the objects call p writes in a group of its snapshot directory
GroupKeys(p, g) ==
    LET v == Version(p)
        ns == input[p].notices
    IN  CASE g = "detail" -> {detail_key(v, ns[i].id) : i \in 1..Len(ns)}
          [] g = "index" ->
                 {index_key(v, "all")}
                 \cup {campus_index_key(v, ns[i].campus) : i \in 1..Len(ns)}
                 \cup {category_index_key(v, map_category(ns[i].board_name)) :
                           i \in 1..Len(ns)}
          [] g = "meta" -> {meta_key(v, n) : n \in {"campus", "category", "source"}}
          [] g = "aux" ->
                 {aux_key(v, n) : n \in {"diff", "stats", "outcome"}
                                       \cup (IF input[p].errors # <<>> THEN {"errors"} ELSE {})}
          [] g = "_manifest" -> {manifest_key(v)}
          [] OTHER -> {}

\* C3: within one write_snapshot call the objects are written group by group in the
\* order _IN_PROGRESS, detail files, index files, meta files, aux files,
\* _manifest.json, _SUCCESS, previous.json (if a prior pointer existed), latest.json;
\* no write of a group begins before every write of the groups before it is complete.
C3_WriteOrder ==
    \A p \in Procs :
        \* completed writes are in group order
        /\ \A i \in 1..(Len(log[p]) - 1) :
               GroupRank(log[p][i]) <= GroupRank(log[p][i + 1])
        \* nothing of a later group is complete while a group is being written
        /\ (Running(p) /\ pc[p] \notin ReadPhases /\ log[p] # <<>>) =>
               GroupRank(log[p][Len(log[p])]) <= GroupRank(GroupOf(pc[p]))
        \* a file of the snapshot directory, temporary ones included, is there only
        \* when every object of the earlier groups is
        /\ LET present == {KeyGroup(k) : k \in {x \in DOMAIN fs : x[1] = Version(p)}}
           IN  /\ present \cap {"index", "meta", "aux", "_manifest", "_SUCCESS"} # {}
                      => GroupKeys(p, "detail") \subseteq DOMAIN fs
               /\ present \cap {"meta", "aux", "_manifest", "_SUCCESS"} # {}
                      => GroupKeys(p, "index") \subseteq DOMAIN fs
               /\ present \cap {"aux", "_manifest", "_SUCCESS"} # {}
                      => GroupKeys(p, "meta") \subseteq DOMAIN fs
               /\ present \cap {"_manifest", "_SUCCESS"} # {}
                      => GroupKeys(p, "aux") \subseteq DOMAIN fs
               /\ "_SUCCESS" \in present => GroupKeys(p, "_manifest") \subseteq DOMAIN fs
        \* a successful call wrote every group, whole
        /\ pc[p] = "ok" => log[p] = ExpectedLog(input[p], start_latest[p] # None)

\* a call that found a prior pointer returned Ok after writing notices
C3_Witness ==
    \E p \in Procs :
        /\ pc[p] = "ok"
        /\ start_latest[p] # None
        /\ Len(input[p].notices) = MaxNotices
        /\ "previous" \in SeqRange(log[p])

\* C4: if an object write inside write_snapshot fails, the call returns an error and
\* latest.json holds exactly what it held before the call.
C4_FailedCallKeepsLatest ==
    [][\A p \in Procs : (pc[p] # "err" /\ pc'[p] = "err") => Latest' = start_latest[p]]_vars

\* C5: local backend, a latest.json exists: at every point of write_atomic of the
\* new pointer, latest.json exists and holds the complete old or the complete new
\* pointer.
C5_PointerSwapCrashSafe ==
    \A p \in Procs :
        (backend = "local" /\ start_latest[p] # None
            /\ (pc[p] = "latest" \/ (pc[p] \in {"ok", "err"} /\ "previous" \in SeqRange(log[p]))))
        => /\ Latest # None
           /\ Latest.v \in {start_latest[p].v, SnapshotPointer(Version(p))}

\* ---------------------------------------------------------------- load_snapshot
\* a snapshot that was not written by the calls of this run
RestoredVersion == NumWriters + 1
StoredOutcome ==
    [notices |-> <<[id |-> "a", title |-> <<"k">>, campus |-> "sinchon",
                    board_name |-> "notice"]>>,
     errors |-> <<>>]

\* the entry objects write_snapshot writes for outcome o over an empty store, as
\* <<key, bytes>> pairs in the order of the writes
SnapshotFiles(v, o) ==
    LET ns == o.notices
    IN  [i \in 1..Len(ns) |-> <<detail_key(v, ns[i].id), NoticeDoc(ns[i])>>]
        \o << <<index_key(v, "all"), IndexDoc(IndexItems(ns))>> >>
        \o [i \in 1..Len(CampusSeq(ns)) |->
               <<campus_index_key(v, CampusSeq(ns)[i]),
                 IndexDoc(CampusItems(ns, CampusSeq(ns)[i]))>>]
        \o [i \in 1..Len(CategorySeq(ns)) |->
               <<category_index_key(v, CategorySeq(ns)[i]),
                 IndexDoc(CategoryItems(ns, CategorySeq(ns)[i]))>>]
        \o << <<meta_key(v, "campus"), MetaDoc("campus")>>,
              <<meta_key(v, "category"), MetaDoc("category")>>,
              <<meta_key(v, "source"), MetaDoc("source")>>,
              <<aux_key(v, "diff"), DiffDoc(ComputeDiff(<<>>, IndexItems(ns)))>>,
              <<aux_key(v, "stats"), StatsDoc>>,
              <<aux_key(v, "outcome"), OutcomeDoc(o)>> >>

\* the store after write_snapshot(o) returned Ok on an empty store
CommittedStore(v, o) ==
    LET files == SnapshotFiles(v, o)
        entries == [i \in 1..Len(files) |-> ManifestEntry(files[i][1], files[i][2])]
        keys == {files[i][1] : i \in 1..Len(files)}
                \cup {manifest_key(v), success_key(v), pointer_key}
    IN  [k \in keys |->
            CASE k = manifest_key(v) -> SnapshotManifest(v, SortBy(EntryLess, entries))
              [] k = success_key(v) -> Marker
              [] k = pointer_key -> SnapshotPointer(v)
              [] OTHER -> files[CHOOSE i \in 1..Len(files) : files[i][1] = k][2]]

\* the stores a reader may be handed: none, a committed snapshot, and a snapshot
\* directory copied back without its _SUCCESS marker
LoadStores ==
    {EmptyStore,
     CommittedStore(RestoredVersion, StoredOutcome),
     RemoveObject(CommittedStore(RestoredVersion, StoredOutcome),
                  success_key(RestoredVersion))}
\* what the writer that runs beside the reader is given
LoadOutcomes ==
    {[notices |-> <<>>, errors |-> <<>>],
     [notices |-> <<[id |-> "a", title |-> <<"u", "p">>, campus |-> "sinchon",
                     board_name |-> "notice"]>>,
      errors |-> <<>>]}

LoadInit ==
    /\ backend \in Backends
    /\ fs \in LoadStores
    /\ pc = [p \in Procs |-> "idle"]
    /\ input = [p \in Procs |-> [notices |-> <<>>, errors |-> <<>>]]
    /\ previous_pointer = [p \in Procs |-> None]
    /\ previous_items = [p \in Procs |-> <<>>]
    /\ manifest_entries = [p \in Procs |-> <<>>]
    /\ jobs = [p \in Procs |-> <<>>]
    /\ log = [p \in Procs |-> <<>>]
    /\ start_latest = [p \in Procs |-> None]
    /\ LoadIdle
    /\ CbIdle
    /\ PipeIdle
    /\ CrawlIdle
    /\ MoreIdle

LoadBegin ==
    /\ ld_pc = "idle"
    /\ ld_pc' = "read_pointer"
    /\ UNCHANGED <<notLoadVars, ld_pointer, ld_success, ld_result>>

\* read_json_optional::<SnapshotPointer>(pointer_key); None returns Ok(Vec::new())
LoadReadPointer ==
    /\ ld_pc = "read_pointer"
    /\ ld_pointer' = ReadOptional(pointer_key)
    /\ ld_pc' = IF ReadOptional(pointer_key) = None THEN "done" ELSE "check_success"
    /\ ld_result' = <<>>
    /\ UNCHANGED <<notLoadVars, ld_success>>

\* the reader goes on to the index without looking at the marker
LoadCheckSuccessSkipped ==
    /\ ld_pc = "check_success"
    /\ ld_success' = TRUE
    /\ ld_pc' = "read_index"
    /\ UNCHANGED <<notLoadVars, ld_pointer, ld_result>>

\* object_exists(success_key); false returns Ok(Vec::new())
LoadCheckSuccess ==
    /\ ld_pc = "check_success"
    /\ ld_success' = Exists(fs, success_key(ld_pointer.v.version))
    /\ ld_pc' = IF Exists(fs, success_key(ld_pointer.v.version)) THEN "read_index" ELSE "done"
    /\ UNCHANGED <<notLoadVars, ld_pointer, ld_result>>

\* read_json_optional(index_key).unwrap_or_default()
LoadReadIndex ==
    /\ ld_pc = "read_index"
    /\ LET doc == ReadOptional(index_key(ld_pointer.v.version, "all"))
       IN  ld_result' = IF doc = None THEN <<>> ELSE doc.v.items
    /\ ld_pc' = "done"
    /\ UNCHANGED <<notLoadVars, ld_pointer, ld_success>>

\* one of the three reads fails and `?` returns the error
LoadFail ==
    /\ ld_pc \in {"read_pointer", "check_success", "read_index"}
    /\ ld_pc' = "err"
    /\ UNCHANGED <<notLoadVars, ld_pointer, ld_success, ld_result>>

LoadNext ==
    \/ \E o \in LoadOutcomes : Begin(1, o)
    \/ \E j \in 1..MaxNotices : WriteStep(1, j)
    \/ ReadPointer(1)
    \/ ReadPreviousIndex(1)
    \/ ReadFail(1)
    \/ RemoveInProgress(1)
    \/ LoadBegin
    \/ LoadReadPointer
    \/ LoadCheckSuccess
    \/ LoadReadIndex
    \/ LoadFail

SpecLoad == LoadInit /\ [][LoadNext]_vars

\* C9: load_snapshot returns the empty list when latest.json is missing or when the
\* _SUCCESS marker of the version it names is missing; otherwise it returns the
\* contents of that version's index/all.json; it never returns items of a version
\* without _SUCCESS.
C9_LoadSnapshot ==
    ld_pc = "done" =>
        /\ ld_pointer = None => ld_result = <<>>
        /\ (ld_pointer # None /\ ~ld_success) => ld_result = <<>>
        /\ (ld_pointer # None /\ ld_success) =>
               /\ Exists(fs, index_key(ld_pointer.v.version, "all"))
               /\ ld_result = fs[index_key(ld_pointer.v.version, "all")].items
        /\ ld_result # <<>> => Committed(ld_pointer.v.version)

\* the reader found the pointer of a snapshot without _SUCCESS and returned nothing
C9_Witness ==
    /\ ld_pc = "done"
    /\ ld_pointer # None
    /\ ~ld_success
    /\ Exists(fs, index_key(ld_pointer.v.version, "all"))
    /\ fs[index_key(ld_pointer.v.version, "all")].items # <<>>

\* ---------------------------------------------------------------- f64 arithmetic
\* A positive f64 is [m |-> its 53-bit significand, e |-> the exponent of the last
\* bit]: its value is m * 2^e.  Integers wider than 31 bits are kept as limbs in base
\* 2^18, most significant first: <<l1, l2, l3>> is l1 * Base^2 + l2 * Base + l3.
Precision == 53
Base == 2 ^ 18

\* four limbs, each possibly above Base, brought back below it
Carry(l) ==
    LET t3 == l[3] + (l[4] \div Base)
        t2 == l[2] + (t3 \div Base)
        t1 == l[1] + (t2 \div Base)
    IN  <<t1, t2 % Base, t3 % Base, l[4] % Base>>

\* number of binary digits of n
BitLen(n) == CHOOSE k \in 0..30 : n < 2 ^ k /\ (k = 0 \/ n >= 2 ^ (k - 1))

\* four limbs divided by 2^s, 0 < s < 18, the dropped digits lost
ShiftRight(l, s) ==
    LET low == 2 ^ s
        high == 2 ^ (18 - s)
    IN  <<l[1] \div low,
          (l[2] \div low) + (l[1] % low) * high,
          (l[3] \div low) + (l[2] % low) * high,
          (l[4] \div low) + (l[3] % low) * high>>

\* round-to-nearest, ties-to-even, of the four-limb integer l (at least 2^Precision)
\* times 2^e, with `sticky` telling whether non-zero digits follow l
RoundToF64(l, e, sticky) ==
    LET s == 3 * 18 + BitLen(l[1]) - Precision
        q == ShiftRight(l, s)
        dropped == l[4] % (2 ^ s)
        guard == dropped >= 2 ^ (s - 1)
        rest == sticky \/ dropped % (2 ^ (s - 1)) # 0
        up == guard /\ (rest \/ q[4] % 2 = 1)
        r == IF up THEN Carry(<<q[1], q[2], q[3], q[4] + 1>>) ELSE q
    IN  IF r[2] >= 2 ^ (Precision - 2 * 18)
        THEN [m |-> <<r[2] \div 2, 0, 0>>, e |-> e + s + 1]
        ELSE [m |-> <<r[2], r[3], r[4]>>, e |-> e + s]

RECURSIVE LeadingZeros(_, _)
LeadingZeros(n, d) == IF 2 * n >= d THEN 0 ELSE 1 + LeadingZeros(2 * n, d)

\* (n as f64) / (d as f64) for 0 < n < d: 54 digits of the quotient by long division
F64Div(n, d) ==
    LET z == LeadingZeros(n, d)
        n0 == n * (2 ^ z)
        r1 == (n0 * Base) % d
        r2 == (r1 * Base) % d
        r3 == (r2 * Base) % d
    IN  RoundToF64(<<0, (n0 * Base) \div d, (r1 * Base) \div d, (r2 * Base) \div d>>,
                   0 - (3 * 18 + z), r3 # 0)

\* f * 100.0
F64Mul100(f) ==
    RoundToF64(Carry(<<0, f.m[1] * 100, f.m[2] * 100, f.m[3] * 100>>), f.e, FALSE)

\* f > (k as f64), for k below 2^8 and f below 2^Precision (so f.e < 0): the limbs of
\* f.m against those of k * 2^(-f.e)
F64GreaterThanInt(f, k) ==
    LET shift == 0 - f.e
        scaled == k * (2 ^ (shift % 18))
        at == shift \div 18
        Limb(i) == IF i = at THEN scaled % Base
                   ELSE IF i = at + 1 THEN scaled \div Base ELSE 0
        Mant(i) == IF i <= 2 THEN f.m[3 - i] ELSE 0
        top == IF at + 1 > 2 THEN at + 1 ELSE 2
    IN  \E i \in 0..top :
            /\ Mant(i) > Limb(i)
            /\ \A j \in (i + 1)..top : Mant(j) = Limb(j)

\* ---------------------------------------------------------------- circuit breaker
MaxCount == 20
DropPercents == {0, 20, 55, 100, 255}
Baselines == {0, 10}
CircuitBreakerConfigs ==
    [max_drop_percent : DropPercents, min_baseline : Baselines, allow_cold_start : BOOLEAN]

\* CircuitBreaker::check
check(config, current_count, previous_count) ==
    IF current_count = 0
    THEN IF previous_count = 0 /\ config.allow_cold_start
         THEN [kind |-> "ColdStart", current_count |-> current_count]
         ELSE [kind |-> "EmptyResult"]
    ELSE IF previous_count < config.min_baseline
    THEN [kind |-> "ColdStart", current_count |-> current_count]
    ELSE IF current_count < previous_count
            /\ F64GreaterThanInt(
                   F64Mul100(F64Div(previous_count - current_count, previous_count)),
                   config.max_drop_percent)
    THEN [kind |-> "Triggered", current_count |-> current_count,
          previous_count |-> previous_count,
          drop_percent |-> F64Mul100(F64Div(previous_count - current_count,
                                            previous_count))]
    ELSE [kind |-> "Safe", current_count |-> current_count,
          previous_count |-> previous_count]

Ok == [kind |-> "Ok"]
\* an empty crawl result is let through
validateEmptyOk(config, current_count, previous_count) ==
    LET r == check(config, current_count, previous_count)
    IN  CASE r.kind \in {"Safe", "ColdStart", "EmptyResult"} -> Ok
          [] r.kind = "Triggered" ->
                 [kind |-> "CircuitBreakerTriggered",
                  current_count |-> r.current_count,
                  previous_count |-> r.previous_count,
                  drop_percent |-> r.drop_percent,
                  threshold_percent |-> config.max_drop_percent]
\* a Triggered decision is let through
validateLenient(config, current_count, previous_count) ==
    LET r == check(config, current_count, previous_count)
    IN  CASE r.kind \in {"Safe", "ColdStart", "Triggered"} -> Ok
          [] r.kind = "EmptyResult" -> [kind |-> "EmptyCrawlResult"]
\* CircuitBreaker::validate
validate(config, current_count, previous_count) ==
    LET r == check(config, current_count, previous_count)
    IN  CASE r.kind \in {"Safe", "ColdStart"} -> Ok
          [] r.kind = "Triggered" ->
                 [kind |-> "CircuitBreakerTriggered",
                  current_count |-> r.current_count,
                  previous_count |-> r.previous_count,
                  drop_percent |-> r.drop_percent,
                  threshold_percent |-> config.max_drop_percent]
          [] r.kind = "EmptyResult" -> [kind |-> "EmptyCrawlResult"]

StoreIdle == StoreInit /\ backend = "local"

CbInit ==
    /\ StoreIdle
    /\ LoadIdle
    /\ cb_config \in CircuitBreakerConfigs
    /\ cb_current \in 0..MaxCount
    /\ cb_previous \in 0..MaxCount
    /\ cb_result = None
    /\ cb_verdict = None
    /\ PipeIdle
    /\ CrawlIdle
    /\ MoreIdle

CheckCall ==
    /\ cb_result = None
    /\ cb_result' = Some(check(cb_config, cb_current, cb_previous))
    /\ UNCHANGED <<notCbVars, cb_config, cb_current, cb_previous, cb_verdict>>

ValidateCall ==
    /\ cb_verdict = None
    /\ cb_verdict' = Some(validate(cb_config, cb_current, cb_previous))
    /\ UNCHANGED <<notCbVars, cb_config, cb_current, cb_previous, cb_result>>

CbNext ==
    \/ CheckCall
    \/ ValidateCall

SpecCB == CbInit /\ [][CbNext]_vars

\* the outcome of the first matching rule of the decision table
RuleOutcome(config, current, previous) ==
    IF current = 0 /\ previous = 0 /\ config.allow_cold_start THEN "ColdStart"
    ELSE IF current = 0 /\ previous > 0 THEN "EmptyResult"
    ELSE IF previous < config.min_baseline THEN "ColdStart"
    ELSE IF current < previous
            /\ (previous - current) * 100 > config.max_drop_percent * previous
    THEN "Triggered"
    ELSE "Safe"

\* C7: for all counts and configurations, check returns the outcome of the first
\* matching rule: (1) current = 0, previous = 0 and allow_cold_start: ColdStart;
\* (2) current = 0 and previous > 0: EmptyResult; (3) previous < min_baseline:
\* ColdStart; (4) current < previous and (previous - current) * 100 >
\* max_drop_percent * previous: Triggered; (5) otherwise Safe.
C7_FirstMatchingRule ==
    cb_result # None =>
        cb_result.v.kind = RuleOutcome(cb_config, cb_current, cb_previous)

\* check refused a drop that is exactly the allowed percentage
C7_Witness ==
    /\ cb_result # None
    /\ cb_result.v.kind = "Triggered"
    /\ (cb_previous - cb_current) * 100 = cb_config.max_drop_percent * cb_previous

\* C8: validate returns Ok exactly when check yields Safe or ColdStart; for Triggered
\* it returns CircuitBreakerTriggered with the same current_count, previous_count
\* and drop_percent and threshold_percent = max_drop_percent; for EmptyResult it
\* returns EmptyCrawlResult.
C8_ValidateMapsCheck ==
    cb_verdict # None =>
        LET r == check(cb_config, cb_current, cb_previous)
            v == cb_verdict.v
        IN  /\ v = Ok <=> r.kind \in {"Safe", "ColdStart"}
            /\ r.kind = "Triggered" =>
                   v = [kind |-> "CircuitBreakerTriggered",
                        current_count |-> r.current_count,
                        previous_count |-> r.previous_count,
                        drop_percent |-> r.drop_percent,
                        threshold_percent |-> cb_config.max_drop_percent]
            /\ r.kind = "EmptyResult" => v = [kind |-> "EmptyCrawlResult"]

\* validate refused a drop from 20 to 1 notices
C8_Witness ==
    /\ cb_verdict # None
    /\ cb_verdict.v.kind = "CircuitBreakerTriggered"
    /\ cb_verdict.v.previous_count = MaxCount
    /\ cb_verdict.v.current_count = 1

\* ---------------------------------------------------------------- crawl run
\* The `crawl` command: the crawl result goes through the circuit breaker against
\* the loaded previous snapshot and is committed only when validate returns Ok.
PipelineConfig == [max_drop_percent |-> 20, min_baseline |-> 0, allow_cold_start |-> TRUE]
PipelineOutcomes ==
    {[notices |-> <<>>, errors |-> <<>>],
     [notices |-> <<[id |-> "a", title |-> <<"k">>, campus |-> "sinchon",
                     board_name |-> "notice"]>>,
      errors |-> <<"board_list">>],
     [notices |-> <<[id |-> "a", title |-> <<"k">>, campus |-> "sinchon",
                     board_name |-> "notice"],
                    [id |-> "b", title |-> <<"k">>, campus |-> "sinchon",
                     board_name |-> "notice"]>>,
      errors |-> <<>>]}

\* what load_snapshot returns on store f when none of its reads fails
LoadedItems(f) ==
    IF ~Exists(f, pointer_key) THEN <<>>
    ELSE IF ~Exists(f, success_key(f[pointer_key].version)) THEN <<>>
    ELSE IF ~Exists(f, index_key(f[pointer_key].version, "all")) THEN <<>>
    ELSE f[index_key(f[pointer_key].version, "all")].items

PipeInit ==
    /\ StoreInit
    /\ LoadIdle
    /\ PipeIdle
    /\ CrawlIdle
    /\ MoreIdle
    /\ cb_config = PipelineConfig
    /\ cb_current = 0
    /\ cb_previous = 0
    /\ cb_result = None
    /\ cb_verdict = None

\* the circuit breaker lets the result through: write_snapshot begins
GatePass(p, o) ==
    /\ Ready(p)
    /\ validate(cb_config, Len(o.notices), Len(LoadedItems(fs))) = Ok
    /\ decision' = [decision EXCEPT ![p] =
                       Some(check(cb_config, Len(o.notices), Len(LoadedItems(fs))))]
    /\ input' = [input EXCEPT ![p] = o]
    /\ start_latest' = [start_latest EXCEPT ![p] = ReadOptional(pointer_key)]
    /\ pc' = [pc EXCEPT ![p] = "in_progress"]
    /\ jobs' = [jobs EXCEPT ![p] = JobsInit(1)]
    /\ UNCHANGED <<backend, fs, previous_pointer, previous_items, manifest_entries, log,
                   loadVars, cbVars, crawlVars, moreVars>>

\* validate returns an error: the run ends without calling write_snapshot
GateAbort(p, o) ==
    /\ Ready(p)
    /\ validate(cb_config, Len(o.notices), Len(LoadedItems(fs))) # Ok
    /\ decision' = [decision EXCEPT ![p] =
                       Some(check(cb_config, Len(o.notices), Len(LoadedItems(fs))))]
    /\ input' = [input EXCEPT ![p] = o]
    /\ start_latest' = [start_latest EXCEPT ![p] = ReadOptional(pointer_key)]
    /\ pc' = [pc EXCEPT ![p] = "aborted"]
    /\ UNCHANGED <<backend, fs, previous_pointer, previous_items, manifest_entries, log,
                   jobs, loadVars, cbVars, crawlVars, moreVars>>

PipeNext ==
    \/ \E p \in Procs, o \in PipelineOutcomes : GatePass(p, o)
    \/ \E p \in Procs, o \in PipelineOutcomes : GateAbort(p, o)
    \/ \E p \in Procs, j \in 1..MaxNotices : WriteStep(p, j)
    \/ \E p \in Procs : ReadPointer(p)
    \/ \E p \in Procs : ReadPreviousIndex(p)
    \/ \E p \in Procs : ReadFail(p)
    \/ \E p \in Procs : RemoveInProgress(p)

SpecPipeline == PipeInit /\ [][PipeNext]_vars

Refused(p) == decision[p] # None /\ decision[p].v.kind \in {"Triggered", "EmptyResult"}

MaxBoards == 2
BoardIds == {"notice", "news"}
\* selector strings: one that Selector::parse accepts and one that it rejects
GoodSelector == "td"
BadSelector == "[["
\* a link selector some boards configure
LinkSelector == "a.view"
RequiredSelectors ==
    {<<GoodSelector, GoodSelector, GoodSelector>>, <<BadSelector, GoodSelector, GoodSelector>>,
     <<GoodSelector, BadSelector, GoodSelector>>, <<GoodSelector, GoodSelector, BadSelector>>}
CmsSelectors ==
    {[row_selector |-> r[1], title_selector |-> r[2], date_selector |-> r[3],
      author_selector |-> a, link_selector |-> l] :
        r \in RequiredSelectors, a \in {None, Some(BadSelector)},
        l \in {None, Some(LinkSelector)}}
\* board i of the flattened site map: department i holds it, its listing page is url i
BoardsAt(i) ==
    {[department_id |-> i, id |-> id, url |-> i, selectors |-> sel] :
        id \in BoardIds, sel \in CmsSelectors}
SiteMaps ==
    UNION {{site \in [1..n -> UNION {BoardsAt(i) : i \in 1..n}] :
                \A i \in 1..n : site[i] \in BoardsAt(i)} : n \in 0..MaxBoards}
\* the rows of a fetched listing page: the link of a row that parses, or "none" for
\* a row parse_notice_row gives up on
RowLists == {<<>>, <<"l1">>, <<"none">>, <<"l1", "l1">>, <<"l1", "L1">>, <<"l1", "l2">>}

\* NoticeCrawler::parse_selector
parse_selector(sel) ==
    IF sel = BadSelector THEN [ok |-> FALSE, selector |-> sel]
    ELSE [ok |-> TRUE, css |-> sel]

build_error(stage, board) == [stage |-> stage, board_id |-> board.id, url |-> board.url]

MapInsert(map, k, v) == [x \in DOMAIN map \cup {k} |-> IF x = k THEN v ELSE map[x]]

\* one iteration of the loop of build_selector_cache
CacheBoard(acc, board) ==
    LET row == parse_selector(board.selectors.row_selector)
        title == parse_selector(board.selectors.title_selector)
        date == parse_selector(board.selectors.date_selector)
        rejected == [acc EXCEPT !.errors = Append(@, build_error("selector", board)),
                                !.invalid_boards = @ \cup {board.id}]
        author == IF board.selectors.author_selector = None THEN None
                  ELSE parse_selector(board.selectors.author_selector.v)
        link == IF board.selectors.link_selector = None THEN None
                ELSE parse_selector(board.selectors.link_selector.v)
        Optional(parsed) == IF parsed # None /\ parsed.ok THEN Some(parsed) ELSE None
        Failed(parsed) == IF parsed # None /\ ~parsed.ok
                          THEN <<build_error("selector", board)>> ELSE <<>>
    IN  IF ~row.ok THEN rejected
        ELSE IF ~title.ok THEN rejected
        ELSE IF ~date.ok THEN rejected
        ELSE [acc EXCEPT
                 !.errors = @ \o Failed(author) \o Failed(link),
                 !.cache = MapInsert(@, board.id,
                                     [row |-> row, title |-> title, date |-> date,
                                      author |-> Optional(author),
                                      link |-> Optional(link),
                                      of_url |-> board.url])]

RECURSIVE CacheFrom(_, _, _)
CacheFrom(boards, i, acc) ==
    IF i > Len(boards) THEN acc
    ELSE CacheFrom(boards, i + 1, CacheBoard(acc, boards[i]))

\* NoticeCrawler::build_selector_cache
build_selector_cache(boards) ==
    CacheFrom(boards, 1, [cache |-> <<>>, errors |-> <<>>, invalid_boards |-> {}])

\* str::to_lowercase on the links of the model
to_lowercase(str) == IF str = "L1" THEN "l1" ELSE str

\* Notice::canonical_id: the normalised fields that go into the digest (source_id
\* is extracted from the link, the date is the same for all notices of the model)
canonical_id(notice) ==
    <<to_lowercase(notice.campus), notice.department_id, to_lowercase(notice.board_id),
      to_lowercase(notice.link)>>

\* the notices parse_notice_row makes of the rows of a board's page
RowNotices(board, rows) ==
    LET parsed == SelectSeq(rows, LAMBDA r : r # "none")
    IN  [k \in 1..Len(parsed) |->
            [campus |-> "sinchon", department_id |-> board.department_id,
             board_id |-> board.id, link |-> parsed[k]]]

\* a deduplication that keeps every notice
DedupNone(buffer, seen) == buffer

\* the first notice of each canonical_id, in buffer order
RECURSIVE Dedup(_, _)
Dedup(buffer, seen) ==
    IF buffer = <<>> THEN <<>>
    ELSE IF canonical_id(Head(buffer)) \in seen THEN Dedup(Tail(buffer), seen)
    ELSE <<Head(buffer)>> \o Dedup(Tail(buffer), seen \cup {canonical_id(Head(buffer))})

CrawlInit ==
    /\ StoreIdle
    /\ LoadIdle
    /\ CbIdle
    /\ PipeIdle
    /\ MoreIdle
    /\ cr_site \in SiteMaps
    /\ CrawlStart

\* fetch_all up to the start of the board stream
BuildSelectorCache ==
    /\ cr_pc = "start"
    /\ LET built == build_selector_cache(cr_site)
           board_jobs == SelectSeq([i \in 1..Len(cr_site) |-> i],
                                   LAMBDA i : cr_site[i].id \notin built.invalid_boards)
       IN  /\ cr_cache' = built.cache
           /\ cr_invalid' = built.invalid_boards
           /\ cr_jobs' = board_jobs
           /\ cr_pending' = 1..Len(board_jobs)
           /\ cr_outcome' = [DefaultCrawlOutcome EXCEPT
                                !.board_total = Len(board_jobs)
                                                + Cardinality(built.invalid_boards),
                                !.board_failures = Cardinality(built.invalid_boards),
                                !.errors = built.errors]
    /\ cr_pc' = "boards"
    /\ UNCHANGED <<notCrawlVars, cr_site, cr_buffer, cr_log>>

\* a board job of the stream completes with a parsed listing page
FetchBoardOk(k, rows) ==
    /\ cr_pc = "boards"
    /\ k \in cr_pending
    /\ cr_site[cr_jobs[k]].id \in DOMAIN cr_cache
    /\ LET board == cr_site[cr_jobs[k]]
       IN  /\ cr_outcome' = [cr_outcome EXCEPT
                                !.notice_total = @ + Len(rows),
                                !.notice_failures =
                                    @ + Len(SelectSeq(rows, LAMBDA r : r = "none"))]
           /\ cr_buffer' = cr_buffer \o RowNotices(board, rows)
           /\ cr_log' = Append(cr_log, [board |-> cr_jobs[k], ok |-> TRUE,
                                        selectors |-> cr_cache[board.id],
                                        notices |-> RowNotices(board, rows)])
    /\ cr_pending' = cr_pending \ {k}
    /\ UNCHANGED <<notCrawlVars, cr_site, cr_pc, cr_cache, cr_invalid, cr_jobs>>

\* a failed board job that leaves no trace in the outcome
FetchBoardErrSilent(k) ==
    /\ cr_pc = "boards"
    /\ k \in cr_pending
    /\ cr_log' = Append(cr_log, [board |-> cr_jobs[k], ok |-> FALSE,
                                 selectors |-> cr_cache[cr_site[cr_jobs[k]].id],
                                 notices |-> <<>>])
    /\ cr_pending' = cr_pending \ {k}
    /\ UNCHANGED <<notCrawlVars, cr_site, cr_pc, cr_cache, cr_invalid, cr_jobs, cr_buffer,
                   cr_outcome>>

\* a board job completes with an error: the page fetch or Url::parse failed
FetchBoardErr(k) ==
    /\ cr_pc = "boards"
    /\ k \in cr_pending
    /\ LET board == cr_site[cr_jobs[k]]
       IN  /\ cr_outcome' = [cr_outcome EXCEPT
                                !.board_failures = @ + 1,
                                !.errors = Append(@, build_error("board_list", board))]
           /\ cr_log' = IF board.id \in DOMAIN cr_cache
                        THEN Append(cr_log, [board |-> cr_jobs[k], ok |-> FALSE,
                                             selectors |-> cr_cache[board.id],
                                             notices |-> <<>>])
                        ELSE cr_log
    /\ cr_pending' = cr_pending \ {k}
    /\ UNCHANGED <<notCrawlVars, cr_site, cr_pc, cr_cache, cr_invalid, cr_jobs, cr_buffer>>

\* the board stream is drained: deduplication, then the detail stage, in which
\* fetch_notice_detail returns every notice as it is
FinishCrawl ==
    /\ cr_pc = "boards"
    /\ cr_pending = {}
    /\ cr_outcome' = [cr_outcome EXCEPT
                         !.detail_total = Len(Dedup(cr_buffer, {})),
                         !.notices = Dedup(cr_buffer, {})]
    /\ cr_pc' = "done"
    /\ UNCHANGED <<notCrawlVars, cr_site, cr_cache, cr_invalid, cr_jobs, cr_pending,
                   cr_buffer, cr_log>>

CrawlNext ==
    \/ BuildSelectorCache
    \/ \E k \in 1..MaxBoards, rows \in RowLists : FetchBoardOk(k, rows)
    \/ \E k \in 1..MaxBoards : FetchBoardErr(k)
    \/ FinishCrawl

SpecCrawl == CrawlInit /\ [][CrawlNext]_vars

InvalidRequired(board) ==
    \/ ~parse_selector(board.selectors.row_selector).ok
    \/ ~parse_selector(board.selectors.title_selector).ok
    \/ ~parse_selector(board.selectors.date_selector).ok

\* C10: when fetch_all has returned, a board with an invalid required selector has
\* contributed exactly one selector-stage error and no notice, and every other
\* board, whatever its department and board id, was fetched and the notices of its
\* page are in the outcome.
C10_InvalidBoardIsolated ==
    cr_pc = "done" =>
        \A i \in 1..Len(cr_site) :
            IF InvalidRequired(cr_site[i])
            THEN /\ Cardinality({e \in 1..Len(cr_outcome.errors) :
                                    /\ cr_outcome.errors[e].stage = "selector"
                                    /\ cr_outcome.errors[e].url = cr_site[i].url}) = 1
                 /\ \A n \in 1..Len(cr_outcome.notices) :
                        cr_outcome.notices[n].department_id # cr_site[i].department_id
            ELSE \E f \in 1..Len(cr_log) :
                     /\ cr_log[f].board = i
                     /\ \A n \in 1..Len(cr_log[f].notices) :
                            \E m \in 1..Len(cr_outcome.notices) :
                                canonical_id(cr_outcome.notices[m])
                                    = canonical_id(cr_log[f].notices[n])

\* fetch_all returned without a fetch of a board whose own selectors are all valid
C10_Witness ==
    /\ cr_pc = "done"
    /\ \E i \in 1..Len(cr_site) :
           /\ ~InvalidRequired(cr_site[i])
           /\ cr_site[i].id \in cr_invalid
           /\ \A f \in 1..Len(cr_log) : cr_log[f].board # i

\* C11: when fetch_all has returned, board_total is the number of boards of the
\* site map, board_failures is the number of boards excluded for an invalid
\* required selector plus the number of boards whose list fetch failed, and
\* board_failures <= board_total.
C11_BoardCounts ==
    cr_pc = "done" =>
        /\ cr_outcome.board_total = Len(cr_site)
        /\ cr_outcome.board_failures =
               Cardinality({i \in 1..Len(cr_site) : InvalidRequired(cr_site[i])})
               + Cardinality({f \in 1..Len(cr_log) : ~cr_log[f].ok})
        /\ cr_outcome.board_failures <= cr_outcome.board_total

\* fetch_all returned for a site map of two boards, one rejected for a required
\* selector and one whose list fetch failed
C11_Witness ==
    /\ cr_pc = "done"
    /\ Len(cr_site) = 2
    /\ \E i \in 1..2 : InvalidRequired(cr_site[i])
    /\ \E f \in 1..Len(cr_log) : ~cr_log[f].ok

BoardListErrors(url) ==
    {e \in 1..Len(cr_outcome.errors) :
        /\ cr_outcome.errors[e].stage = "board_list"
        /\ cr_outcome.errors[e].url = url}

\* C12: whatever board jobs fail, fetch_all goes on to return an outcome; each
\* failed board-list fetch has added exactly one board_list error and one to
\* board_failures, and every notice of a board whose fetch succeeded is in the
\* returned outcome under its canonical_id.
C12_PartialFailure ==
    /\ cr_pc \in {"boards", "done"} =>
           /\ \A f \in 1..Len(cr_log) :
                  ~cr_log[f].ok =>
                      Cardinality(BoardListErrors(cr_site[cr_log[f].board].url)) = 1
           /\ Cardinality({e \in 1..Len(cr_outcome.errors) :
                              cr_outcome.errors[e].stage = "board_list"})
                  = Cardinality({f \in 1..Len(cr_log) : ~cr_log[f].ok})
           /\ cr_outcome.board_failures
                  = Cardinality(cr_invalid) + Cardinality({f \in 1..Len(cr_log) : ~cr_log[f].ok})
    /\ (cr_pc = "boards" /\ cr_pending = {}) => ENABLED FinishCrawl
    /\ cr_pc = "done" =>
           \A f \in 1..Len(cr_log) :
               cr_log[f].ok =>
                   \A n \in 1..Len(cr_log[f].notices) :
                       \E m \in 1..Len(cr_outcome.notices) :
                           canonical_id(cr_outcome.notices[m])
                               = canonical_id(cr_log[f].notices[n])

\* fetch_all returned after one board job failed and another delivered notices
C12_Witness ==
    /\ cr_pc = "done"
    /\ \E f \in 1..Len(cr_log) : ~cr_log[f].ok
    /\ \E f \in 1..Len(cr_log) : cr_log[f].ok /\ cr_log[f].notices # <<>>

\* C13: when fetch_all has returned, no two notices of the outcome have the same
\* canonical_id, every canonical_id a fetched row produced is there exactly once,
\* and detail_total is the number of deduplicated notices.
C13_DedupByCanonicalId ==
    cr_pc = "done" =>
        /\ \A m, n \in 1..Len(cr_outcome.notices) :
               m # n => canonical_id(cr_outcome.notices[m]) # canonical_id(cr_outcome.notices[n])
        /\ \A b \in 1..Len(cr_buffer) :
               Cardinality({m \in 1..Len(cr_outcome.notices) :
                               canonical_id(cr_outcome.notices[m]) = canonical_id(cr_buffer[b])})
                   = 1
        /\ cr_outcome.detail_total = Len(cr_outcome.notices)
        /\ \A m \in 1..Len(cr_outcome.notices) :
               \E b \in 1..Len(cr_buffer) : cr_buffer[b] = cr_outcome.notices[m]

\* fetch_all returned after two different rows gave notices of one canonical_id
C13_Witness ==
    /\ cr_pc = "done"
    /\ \E a, b \in 1..Len(cr_buffer) :
           /\ cr_buffer[a] # cr_buffer[b]
           /\ canonical_id(cr_buffer[a]) = canonical_id(cr_buffer[b])

\* ---------------------------------------------------------------- put_bytes_with_retry
MaxPutRetries == 3
\* what request.send() may return: Ok, or one of the variants of SdkError
StatusCodes == {400, 403, 404, 429, 499, 500, 503, 599}
SendResults ==
    {[kind |-> "Ok"]}
    \cup {[kind |-> "ServiceError", status |-> st] : st \in StatusCodes}
    \cup {[kind |-> k] : k \in {"TimeoutError", "DispatchFailure", "ConstructionFailure",
                                "ResponseError"}}

\* a retry rule under which every failure is transient
should_retry_always(err) == TRUE

\* S3Storage::should_retry
should_retry(err) ==
    CASE err.kind = "ServiceError" -> err.status = 429 \/ (500 <= err.status /\ err.status <= 599)
      [] err.kind \in {"TimeoutError", "DispatchFailure"} -> TRUE
      [] OTHER -> FALSE

PutInit ==
    /\ StoreIdle
    /\ LoadIdle
    /\ CbIdle
    /\ PipeIdle
    /\ CrawlIdle
    /\ DiscIdle
    /\ DiffIdle
    /\ LateIdle
    /\ put_max \in 0..MaxPutRetries
    /\ PutStart

\* one pass of the loop whose request.send() succeeds
PutSendOk ==
    /\ put_pc = "send"
    /\ put_attempts' = Append(put_attempts, [kind |-> "Ok"])
    /\ put_pc' = "ok"
    /\ UNCHANGED <<storeVars, loadVars, cbVars, pipeVars, crawlVars, discVars, diffVars, lateVars, put_max, put_retries>>

\* one pass whose request.send() fails and the loop goes round again after the sleep
PutSendRetry(err) ==
    /\ put_pc = "send"
    /\ err.kind # "Ok"
    /\ ~(put_retries >= put_max \/ ~should_retry(err))
    /\ put_attempts' = Append(put_attempts, err)
    /\ put_retries' = put_retries + 1
    /\ UNCHANGED <<storeVars, loadVars, cbVars, pipeVars, crawlVars, discVars, diffVars, lateVars, put_max, put_pc>>

\* one pass whose request.send() fails and the call returns Err(AppError::S3)
PutSendErr(err) ==
    /\ put_pc = "send"
    /\ err.kind # "Ok"
    /\ put_retries >= put_max \/ ~should_retry(err)
    /\ put_attempts' = Append(put_attempts, err)
    /\ put_pc' = "err"
    /\ UNCHANGED <<storeVars, loadVars, cbVars, pipeVars, crawlVars, discVars, diffVars, lateVars, put_max, put_retries>>

PutNext ==
    \/ PutSendOk
    \/ \E err \in SendResults : PutSendRetry(err)
    \/ \E err \in SendResults : PutSendErr(err)

SpecPut == PutInit /\ [][PutNext]_vars
\* the runtime polls the future until it returns
SpecPutLive == SpecPut /\ WF_vars(PutNext)

\* the failures the retry rule names: 429, 5xx, a timeout, a dispatch failure
Transient(res) ==
    \/ res.kind = "ServiceError" /\ (res.status = 429 \/ res.status \in 500..599)
    \/ res.kind \in {"TimeoutError", "DispatchFailure"}

PutBounded ==
    /\ Len(put_attempts) <= put_max + 1
    /\ \A i \in 1..(Len(put_attempts) - 1) : Transient(put_attempts[i])
    /\ \A i \in 1..Len(put_attempts) :
           (put_attempts[i].kind # "Ok" /\ ~Transient(put_attempts[i])) =>
               /\ i = Len(put_attempts)
               /\ put_pc = "err"
    /\ (put_attempts # <<>> /\ put_attempts[1].kind # "Ok" /\ ~Transient(put_attempts[1])) =>
           Len(put_attempts) = 1

\* C14: put_bytes_with_retry terminates and makes at most max_retries + 1 PUT
\* attempts; an attempt is followed by another only after a 429, a 5xx, a timeout
\* or a dispatch failure, and any other failure ends the call with an error at
\* once (after exactly one attempt when it is the first).
C14_PutRetryBounded == []PutBounded /\ <>(put_pc \in {"ok", "err"})

\* the call used up its retries on transient failures, or ended on a fatal one
C14_Witness ==
    \/ /\ put_pc = "err"
       /\ put_max > 0
       /\ Len(put_attempts) = put_max + 1
       /\ Transient(put_attempts[Len(put_attempts)])
    \/ /\ put_pc = "err"
       /\ Len(put_attempts) = 2
       /\ put_attempts[2].kind = "ServiceError" /\ put_attempts[2].status = 403

\* ---------------------------------------------------------------- BoardDiscoveryService::discover
MaxLinks == 3
MaxSitemapLinks == 1
\* link texts; the keyword mappings of the configuration, in order
LinkTexts == {"notice", "news", "about"}
keywords == <<[keyword |-> "notice", id |-> "notice"], [keyword |-> "news", id |-> "news"]>>
\* hrefs after resolve(): 0 is one the link filters drop (blacklisted, javascript,
\* "#", or on another domain), the others are pages of the department's site
FilteredHref == 0
Hrefs == 0..3
PageLinks == [text : LinkTexts, href : Hrefs]
Documents(n) == UNION {[1..k -> PageLinks] : k \in 0..n}
DeptUrls == {"NOT_FOUND", "ftp://dept", "http://dept"}

\* BoardDiscoveryService::is_valid_url
is_valid_url(url) == url # "NOT_FOUND" /\ url \in {"http://dept"}

\* text.contains(&m.keyword) on the texts of the model
Contains(text, keyword) == text = keyword

\* BoardDiscoveryService::try_create_board
try_create_board(text, url) ==
    LET matching == {m \in 1..Len(keywords) : Contains(text, keywords[m].keyword)}
    IN  IF matching = {} THEN None
        ELSE LET mapping == keywords[CHOOSE m \in matching : \A x \in matching : m <= x]
             IN  Some([id |-> mapping.id, name |-> text, url |-> url])

\* the first loop of extract_boards: the links to process
RECURSIVE LinksToProcess(_, _)
LinksToProcess(links, seen_urls) ==
    IF links = <<>> THEN <<>>
    ELSE IF Head(links).href = FilteredHref \/ Head(links).href \in seen_urls
    THEN LinksToProcess(Tail(links), seen_urls)
    ELSE <<Head(links)>> \o LinksToProcess(Tail(links), seen_urls \cup {Head(links).href})

\* format!("{}_{}", board.id, *count)
SuffixedId(id, count) == id \o "_" \o ToString(count)

\* the fold of extract_boards over the boards created
RECURSIVE NumberIds(_, _)
NumberIds(boards, id_counts) ==
    IF boards = <<>> THEN <<>>
    ELSE LET board == Head(boards)
             count == (IF board.id \in DOMAIN id_counts THEN id_counts[board.id] ELSE 0) + 1
             numbered == IF count > 1 THEN [board EXCEPT !.id = SuffixedId(board.id, count)]
                         ELSE board
         IN  <<numbered>> \o NumberIds(Tail(boards), MapInsert(id_counts, board.id, count))

\* BoardDiscoveryService::extract_boards
extract_boards(document) ==
    LET links == LinksToProcess(document, {})
        results == [k \in 1..Len(links) |-> try_create_board(links[k].text, links[k].href)]
        created == SelectSeq(results, LAMBDA b : b # None)
    IN  NumberIds([k \in 1..Len(created) |-> created[k].v], <<>>)

RECURSIVE MergeFrom(_, _)
MergeFrom(boards, seen_urls) ==
    IF boards = <<>> THEN <<>>
    ELSE IF Head(boards).url \in seen_urls THEN MergeFrom(Tail(boards), seen_urls)
    ELSE <<Head(boards)>> \o MergeFrom(Tail(boards), seen_urls \cup {Head(boards).url})

\* BoardDiscoveryService::merge_boards
merge_boards(primary, secondary) == MergeFrom(primary \o secondary, {})

DiscInit ==
    /\ StoreIdle
    /\ LoadIdle
    /\ CbIdle
    /\ PipeIdle
    /\ CrawlIdle
    /\ PutIdle
    /\ DiffIdle
    /\ LateIdle
    /\ disc_document \in Documents(MaxLinks)
    /\ disc_sitemap \in {None} \cup {Some(d) : d \in Documents(MaxSitemapLinks)}
    /\ DiscStart

ManualReview(reason) == Some([reason |-> reason])

\* discover returns early: the homepage URL is invalid, or its fetch failed
DiscoverRejected(dept_url, fetched) ==
    /\ disc_pc = "start"
    /\ ~is_valid_url(dept_url) \/ ~fetched
    /\ disc_result' = [disc_result EXCEPT
                          !.manual_review =
                              ManualReview(IF ~is_valid_url(dept_url) THEN "invalid_url"
                                           ELSE "fetch_failed")]
    /\ disc_pc' = "done"
    /\ UNCHANGED <<storeVars, loadVars, cbVars, pipeVars, crawlVars, putVars, diffVars, lateVars, disc_document,
                   disc_sitemap, disc_homepage_boards, disc_sitemap_boards>>

\* the homepage is fetched and its boards extracted
DiscoverHomepage(dept_url) ==
    /\ disc_pc = "start"
    /\ is_valid_url(dept_url)
    /\ disc_homepage_boards' = extract_boards(disc_document)
    /\ disc_pc' = "sitemap"
    /\ UNCHANGED <<storeVars, loadVars, cbVars, pipeVars, crawlVars, putVars, diffVars, lateVars, disc_document,
                   disc_sitemap, disc_sitemap_boards, disc_result>>

\* find_sitemap, and the boards of the sitemap page if there is one
DiscoverSitemap ==
    /\ disc_pc = "sitemap"
    /\ disc_sitemap_boards' = IF disc_sitemap # None THEN extract_boards(disc_sitemap.v)
                              ELSE <<>>
    /\ disc_pc' = "merge"
    /\ UNCHANGED <<storeVars, loadVars, cbVars, pipeVars, crawlVars, putVars, diffVars, lateVars, disc_document,
                   disc_sitemap, disc_homepage_boards, disc_result>>

\* a merge that never asks for a manual review
DiscoverMergeSilent ==
    /\ disc_pc = "merge"
    /\ disc_result' = [disc_result EXCEPT
                          !.boards = merge_boards(disc_homepage_boards, disc_sitemap_boards)]
    /\ disc_pc' = "done"
    /\ UNCHANGED <<storeVars, loadVars, cbVars, pipeVars, crawlVars, putVars, diffVars, lateVars,
                   disc_document, disc_sitemap, disc_homepage_boards, disc_sitemap_boards>>

\* the merge, and the manual review item when nothing was found
DiscoverMerge ==
    /\ disc_pc = "merge"
    /\ LET boards == merge_boards(disc_homepage_boards, disc_sitemap_boards)
       IN  disc_result' = [boards |-> boards,
                           manual_review |-> IF boards = <<>> THEN ManualReview("no_boards")
                                             ELSE disc_result.manual_review]
    /\ disc_pc' = "done"
    /\ UNCHANGED <<storeVars, loadVars, cbVars, pipeVars, crawlVars, putVars, diffVars, lateVars, disc_document,
                   disc_sitemap, disc_homepage_boards, disc_sitemap_boards>>

DiscNext ==
    \/ \E dept_url \in DeptUrls, fetched \in BOOLEAN : DiscoverRejected(dept_url, fetched)
    \/ \E dept_url \in DeptUrls : DiscoverHomepage(dept_url)
    \/ DiscoverSitemap
    \/ DiscoverMerge

SpecDiscover == DiscInit /\ [][DiscNext]_vars

\* the ids discover gives to the boards of one keyword id: id, id_2, id_3, ...
Family(id) == {id} \cup {SuffixedId(id, c) : c \in 2..(MaxLinks + MaxSitemapLinks)}
ResultIds == [k \in 1..Len(disc_result.boards) |-> disc_result.boards[k].id]

\* C15: the boards discover returns for a department have pairwise distinct ids,
\* and the matches of one keyword id carry id, id_2, id_3, ... in first-seen order.
C15_DistinctBoardIds ==
    disc_pc = "done" =>
        /\ \A a, b \in 1..Len(ResultIds) : a # b => ResultIds[a] # ResultIds[b]
        /\ \A m \in 1..Len(keywords) :
               LET ids == SelectSeq(ResultIds, LAMBDA x : x \in Family(keywords[m].id))
               IN  \A k \in 1..Len(ids) :
                       ids[k] = IF k = 1 THEN keywords[m].id
                                ELSE SuffixedId(keywords[m].id, k)

\* discover returned boards found on the homepage and on the sitemap page
C15_Witness ==
    /\ disc_pc = "done"
    /\ disc_homepage_boards # <<>>
    /\ disc_sitemap_boards # <<>>
    /\ Len(disc_result.boards) = Len(disc_homepage_boards) + Len(disc_sitemap_boards)

\* ---------------------------------------------------------------- diff
MaxDiffNotices == 2
DiffIds == {"a", "b", "c"}
DiffNotices == [id : DiffIds, title : Titles, campus : CampusNames, board_name : BoardNames]
DiffLists == UNION {[1..n -> DiffNotices] : n \in 0..MaxDiffNotices}

\* NoticeOutput::from(&Notice): id, title and the fields calculate does not read
NoticeOutputFrom(n) ==
    [id |-> n.id, title |-> n.title,
     metadata |-> [campus |-> n.campus, board_name |-> n.board_name]]

\* the orders in which a HashSet or HashMap may yield the elements of S
IterationOrders(S) ==
    {order \in [1..Cardinality(S) -> S] :
        \A i, j \in 1..Cardinality(S) : i # j => order[i] # order[j]}

Ids(list) == {list[i].id : i \in 1..Len(list)}

\* the index/all.json of the previous commit as it is read back: some of its items
\* may have been stored without a content hash
StoredItems(notices) ==
    {[k \in 1..Len(notices) |->
         IF k \in hashless THEN [IndexItemFrom(notices[k]) EXCEPT !.content_hash = None]
         ELSE IndexItemFrom(notices[k])] : hashless \in SUBSET (1..Len(notices))}

DiffInit ==
    /\ StoreIdle
    /\ LoadIdle
    /\ CbIdle
    /\ PipeIdle
    /\ CrawlIdle
    /\ PutIdle
    /\ DiscIdle
    /\ LateIdle
    /\ diff_calculator \in [detect_updates : BOOLEAN]
    /\ diff_previous \in DiffLists
    /\ diff_current \in DiffLists
    /\ diff_stored \in StoredItems(diff_previous)
    /\ DiffStart

\* a calculate that reports every id present in both lists as updated
calculateAllCommon(self, previous, current, added_order, removed_order, common_order) ==
    LET curr_map == [id \in Ids(current) |-> LastWith(current, id)]
    IN  [diff |-> [added |-> added_order,
                   updated |-> IF self.detect_updates THEN common_order ELSE <<>>,
                   removed |-> removed_order],
         added_notices |-> [k \in 1..Len(added_order) |-> curr_map[added_order[k]]],
         updated_notices |-> IF self.detect_updates
                             THEN [k \in 1..Len(common_order) |-> curr_map[common_order[k]]]
                             ELSE <<>>]

\* DiffCalculator::calculate, given the orders in which the hash sets are iterated
calculate(self, previous, current, added_order, removed_order, common_order) ==
    LET prev_map == [id \in Ids(previous) |-> LastWith(previous, id)]
        curr_map == [id \in Ids(current) |-> LastWith(current, id)]
        added_ids == added_order
        added_notices == [k \in 1..Len(added_ids) |-> curr_map[added_ids[k]]]
        removed == removed_order
        updated_ids == SelectSeq(common_order,
                                 LAMBDA id : prev_map[id].title # curr_map[id].title)
        updated_notices == [k \in 1..Len(updated_ids) |-> curr_map[updated_ids[k]]]
    IN  [diff |-> [added |-> added_ids,
                   updated |-> IF self.detect_updates THEN updated_ids ELSE <<>>,
                   removed |-> removed],
         added_notices |-> added_notices,
         updated_notices |-> IF self.detect_updates THEN updated_notices ELSE <<>>]

\* a call of DiffCalculator::calculate on the two lists
Calculate ==
    /\ diff_result = None
    /\ LET previous == [k \in 1..Len(diff_previous) |-> NoticeOutputFrom(diff_previous[k])]
           current == [k \in 1..Len(diff_current) |-> NoticeOutputFrom(diff_current[k])]
       IN  \E added_order \in IterationOrders(Ids(current) \ Ids(previous)),
              removed_order \in IterationOrders(Ids(previous) \ Ids(current)),
              common_order \in IterationOrders(Ids(previous) \cap Ids(current)) :
               diff_result' = Some(calculate(diff_calculator, previous, current, added_order,
                                             removed_order, common_order))
    /\ UNCHANGED <<storeVars, loadVars, cbVars, pipeVars, crawlVars, putVars, discVars, lateVars,
                   diff_calculator, diff_previous, diff_current, diff_aux, diff_stored>>

\* the diff write_snapshot computes when the previous commit stored diff_previous
\* and the notices now passed in are diff_current
SnapshotDiff ==
    /\ diff_aux = None
    /\ diff_aux' = Some(ComputeDiff(diff_stored, IndexItems(diff_current)))
    /\ UNCHANGED <<storeVars, loadVars, cbVars, pipeVars, crawlVars, putVars, discVars, lateVars,
                   diff_calculator, diff_previous, diff_current, diff_result, diff_stored>>

DiffNext == Calculate \/ SnapshotDiff

SpecDiff == DiffInit /\ [][DiffNext]_vars

Sorted(ids) == \A i \in 1..(Len(ids) - 1) : ~IdLess(ids[i + 1], ids[i])

\* C16: the lists added, updated and removed of the diff are sorted
\* lexicographically, those DiffCalculator::calculate returns and those
\* write_snapshot puts into aux/diff.json.
C16_DiffListsSorted ==
    /\ diff_result # None =>
           /\ Sorted(diff_result.v.diff.added)
           /\ Sorted(diff_result.v.diff.updated)
           /\ Sorted(diff_result.v.diff.removed)
    /\ diff_aux # None =>
           /\ Sorted(diff_aux.v.added)
           /\ Sorted(diff_aux.v.updated)
           /\ Sorted(diff_aux.v.removed)

\* both diffs were computed for a current list that adds two notices
C16_Witness ==
    /\ diff_result # None
    /\ diff_aux # None
    /\ Len(diff_result.v.diff.added) = 2
    /\ Len(diff_aux.v.added) = 2

\* the title a list holds for an id (that of the last notice with the id, when the
\* list repeats an id)
TitleOf(list, id) == LastWith(list, id).title
ChangedIds(previous, current) ==
    {id \in Ids(previous) \cap Ids(current) : TitleOf(previous, id) # TitleOf(current, id)}
\* the list holds exactly the elements of S, each once
Lists(list, S) == SeqRange(list) = S /\ Len(list) = Cardinality(S)
\* notices[k] is a notice of current with id ids[k], for every k
Carrying(notices, ids, current) ==
    /\ Len(notices) = Len(ids)
    /\ \A k \in 1..Len(ids) :
           /\ notices[k].id = ids[k]
           /\ \E c \in 1..Len(current) : notices[k] = NoticeOutputFrom(current[c])

CalculateReturns(updated_ids) ==
    diff_result # None =>
        /\ Lists(diff_result.v.diff.added, Ids(diff_current) \ Ids(diff_previous))
        /\ Lists(diff_result.v.diff.removed, Ids(diff_previous) \ Ids(diff_current))
        /\ Lists(diff_result.v.diff.updated, updated_ids)
        /\ Carrying(diff_result.v.added_notices, diff_result.v.diff.added, diff_current)
        /\ Carrying(diff_result.v.updated_notices, diff_result.v.diff.updated, diff_current)

\* C17 as stated: calculate returns added = the ids in current and not in previous,
\* removed = the ids in previous and not in current, updated = the ids in both
\* whose title differs, and added_notices and updated_notices are the current
\* notices with those ids.
C17_CalculateAsStated == CalculateReturns(ChangedIds(diff_previous, diff_current))

\* C17, amended: the above for a calculator that detects updates
\* (DiffCalculator::new, calculate_diff); a calculator made by additions_only
\* returns the same added and removed, and empty updated and updated_notices.
C17_CalculateByMode ==
    CalculateReturns(IF diff_calculator.detect_updates
                     THEN ChangedIds(diff_previous, diff_current)
                     ELSE {})

\* calculate returned one added, one updated and one removed id
C17_Witness ==
    /\ diff_result # None
    /\ diff_calculator.detect_updates
    /\ Len(diff_result.v.diff.added) = 1
    /\ Len(diff_result.v.diff.updated) = 1
    /\ Len(diff_result.v.diff.removed) = 1

EmptyDiff(d) == d.added = <<>> /\ d.updated = <<>> /\ d.removed = <<>>

\* C18: the diff of a notice list with itself is empty on added, updated and
\* removed: calculate reports no changes, and so does the diff write_snapshot
\* computes when the notices committed are those of the previous commit.
C18_DiffOfSameIsEmpty ==
    diff_previous = diff_current =>
        /\ diff_result # None =>
               /\ EmptyDiff(diff_result.v.diff)
               /\ diff_result.v.added_notices = <<>>
               /\ diff_result.v.updated_notices = <<>>
        /\ diff_aux # None => EmptyDiff(diff_aux.v)

\* both diffs were computed for a list of two notices against itself
C18_Witness ==
    /\ diff_previous = diff_current
    /\ Len(diff_current) = 2
    /\ diff_result # None
    /\ diff_aux # None

\* the same for two write_snapshot calls in a row on one store: when both calls
\* were passed the same notices and both succeeded, the aux/diff.json of the
\* second is empty
SecondCommitDiffEmpty ==
    (pc[1] = "ok" /\ pc[2] = "ok" /\ input[1].notices = input[2].notices) =>
        EmptyDiff(fs[aux_key(Version(2), "diff")].diff)

\* C19: a write_snapshot call that found no latest.json and succeeds has written
\* an aux/diff.json whose added list holds exactly the ids of the notices passed
\* in and whose updated and removed lists are empty; when it returns, latest.json
\* names the new version and the _SUCCESS marker of that version is there.
C19_FirstCommit ==
    [][\A p \in Procs :
           (pc[p] # "ok" /\ pc'[p] = "ok" /\ previous_pointer[p] = None) =>
               /\ Exists(fs', aux_key(Version(p), "diff"))
               /\ Lists(fs'[aux_key(Version(p), "diff")].diff.added, Ids(input[p].notices))
               /\ fs'[aux_key(Version(p), "diff")].diff.updated = <<>>
               /\ fs'[aux_key(Version(p), "diff")].diff.removed = <<>>
               /\ Exists(fs', pointer_key)
               /\ fs'[pointer_key] = SnapshotPointer(Version(p))
               /\ Exists(fs', success_key(Version(p)))]_vars

\* a call that found no latest.json has committed two notices
C19_Witness ==
    \E p \in Procs :
        /\ pc[p] = "ok"
        /\ previous_pointer[p] = None
        /\ Len(input[p].notices) = 2
        /\ Latest = Some(SnapshotPointer(Version(p)))

\* C20: from the moment the _SUCCESS marker of a version is in the store, no step
\* of the same commit or of a later one creates, changes or deletes an object of
\* that version other than its _IN_PROGRESS marker.
C20_SnapshotImmutable ==
    [][\A v \in Procs :
           Exists(fs, success_key(Version(v))) =>
               \A k \in DOMAIN fs \cup DOMAIN fs' :
                   (k[1] = Version(v) /\ k # in_progress_key(Version(v))) =>
                       /\ k \in DOMAIN fs
                       /\ k \in DOMAIN fs'
                       /\ fs'[k] = fs[k]]_vars

\* a later commit has succeeded on a store that holds an earlier committed snapshot
C20_Witness ==
    /\ Committed(Version(1))
    /\ pc[1] = "ok"
    /\ pc[2] = "ok"
    /\ input[2].notices # <<>>

\* ---------------------------------------------------------------------------
\* S3Storage object keys (storage/s3.rs, storage/mod.rs paths)
\* ---------------------------------------------------------------------------
\* A key is a sequence of tokens: "/" or a path segment.

MaxAccesses == 2

Slash == "/"

\* values of S3_PREFIX: "", "uRing", "uRing/", "a/b"
Prefixes == {<<>>, <<"uRing">>, <<"uRing", "/">>, <<"a", "/", "b">>}

RECURSIVE trim_end_matches(_)
trim_end_matches(k) ==
    IF k # <<>> /\ k[Len(k)] = Slash THEN trim_end_matches(SubSeq(k, 1, Len(k) - 1)) ELSE k

RECURSIVE trim_start_matches(_)
trim_start_matches(k) ==
    IF k # <<>> /\ Head(k) = Slash THEN trim_start_matches(Tail(k)) ELSE k

\* format!("{}/...", prefix.trim_end_matches('/')) as the paths functions do
paths_join(prefix, rest) == trim_end_matches(prefix) \o <<Slash>> \o rest

config_key(prefix, name) == paths_join(prefix, <<"config", Slash, name>>)

paths_pointer_key(prefix) == paths_join(prefix, <<"latest.json">>)

paths_previous_pointer_key(prefix) == paths_join(prefix, <<"previous.json">>)

snapshot_prefix(prefix, version) == paths_join(prefix, <<"snapshots", Slash, version>>)

\* an object under a snapshot prefix: markers, manifest, index/, detail/, meta/, aux/
snapshot_object(snapshot, rest) == snapshot \o <<Slash>> \o rest

resolve_key(prefix, logical_key) ==
    IF prefix = <<>> THEN logical_key
    ELSE trim_end_matches(prefix) \o <<Slash>> \o trim_start_matches(logical_key)

ConfigNames == {"config.toml", "seed.toml", "locale.toml", "siteMap.json"}

KeyVersions == {"v1", "v2"}

\* the objects of one snapshot, by their path below snapshots/<version>
SnapshotRests ==
    { <<"_IN_PROGRESS">>, <<"_SUCCESS">>, <<"manifest.json">>,
      <<"index", Slash, "all.json">>, <<"detail", Slash, "n1.json">>,
      <<"meta", Slash, "campus.json">>, <<"aux", Slash, "diff.json">> }

KeyInit ==
    /\ EarlyIdle
    /\ CidIdle
    /\ CfgIdle
    /\ IdxIdle
    /\ s3_prefix \in Prefixes
    /\ s3_keys = <<>>

Access(logical, caller_key) ==
    /\ Len(s3_keys) < MaxAccesses
    /\ s3_keys' = Append(s3_keys, [logical |-> logical,
                                   final_key |-> resolve_key(s3_prefix, caller_key)])

\* write_config_bundle: one of its four objects
WriteConfigBundle(name) ==
    /\ Access(<<"config", Slash, name>>, config_key(s3_prefix, name))
    /\ UNCHANGED <<earlyVars, notKeyVars, s3_prefix>>

\* write_snapshot and load_snapshot: latest.json
AccessPointer ==
    /\ Access(<<"latest.json">>, paths_pointer_key(<<>>))
    /\ UNCHANGED <<earlyVars, notKeyVars, s3_prefix>>

\* write_snapshot: previous.json
AccessPreviousPointer ==
    /\ Access(<<"previous.json">>, paths_previous_pointer_key(<<>>))
    /\ UNCHANGED <<earlyVars, notKeyVars, s3_prefix>>

\* write_snapshot and load_snapshot: an object of a snapshot
AccessSnapshotObject(version, rest) ==
    /\ Access(<<"snapshots", Slash, version, Slash>> \o rest,
              snapshot_object(snapshot_prefix(<<>>, version), rest))
    /\ UNCHANGED <<earlyVars, notKeyVars, s3_prefix>>

KeyNext ==
    \/ \E name \in ConfigNames : WriteConfigBundle(name)
    \/ AccessPointer
    \/ AccessPreviousPointer
    \/ \E version \in KeyVersions, rest \in SnapshotRests : AccessSnapshotObject(version, rest)

SpecKeys == KeyInit /\ [][KeyNext]_vars

\* the prefix joined once with the prefix-free key; with no prefix the key itself,
\* with or without the leading slash the paths functions produce
PrefixedOnce(prefix, logical) ==
    IF prefix = <<>> THEN {logical, <<Slash>> \o logical}
    ELSE {trim_end_matches(prefix) \o <<Slash>> \o logical}

\* C21: every object the S3 backend reads or writes has the key made of the configured
\* prefix joined exactly once with the prefix-free logical key.
C21_PrefixAppliedOnce ==
    \A i \in 1..Len(s3_keys) : s3_keys[i].final_key \in PrefixedOnce(s3_prefix, s3_keys[i].logical)

C21_Witness ==
    /\ s3_prefix = <<"uRing">>
    /\ Len(s3_keys) = 2
    /\ s3_keys[1].logical = <<"config", Slash, "config.toml">>
    /\ s3_keys[2].logical = <<"latest.json">>
    /\ s3_keys[2].final_key = <<"uRing", Slash, "latest.json">>

\* ---------------------------------------------------------------------------
\* Notice::canonical_id (models/notice.rs)
\* ---------------------------------------------------------------------------
\* A string is a sequence of characters; a date is a sequence of parts and separators.

Space == " "

\* char::to_lowercase on the characters of the model
lower_char(c) == IF c = "A" THEN "a" ELSE IF c = "D" THEN "d" ELSE IF c = "L" THEN "l" ELSE c

\* str::to_lowercase
lowercase(str) == [i \in 1..Len(str) |-> lower_char(str[i])]

\* str::trim
RECURSIVE trim(_)
trim(str) ==
    IF str # <<>> /\ Head(str) = Space THEN trim(Tail(str))
    ELSE IF str # <<>> /\ str[Len(str)] = Space THEN trim(SubSeq(str, 1, Len(str) - 1))
    ELSE str

\* Option<String>::as_deref().unwrap_or("")
unwrap_or_empty(opt) == IF opt = None THEN <<>> ELSE opt.v

Campuses == {<<"a">>, <<"A">>, <<Space, "a">>, <<"b">>}

DepartmentIds == {<<"d">>, <<"D">>}

CidBoardIds == {<<"n">>, <<"m">>}

SourceIds == {None, Some(<<>>), Some(<<"s">>)}

Links == {<<"l">>, <<"L">>}

\* 2024-01-15, 24.01.15, 2024/01/16
Dates == {<<"2024", "-", "01", "-", "15">>, <<"24", ".", "01", ".", "15">>,
          <<"2024", "/", "01", "/", "16">>}

\* the first notice; the second one takes any value in one field
CidNotices ==
    [campus : Campuses, department_id : {<<"d">>}, board_id : {<<"n">>},
     source_id : {None, Some(<<"s">>)}, link : {<<"l">>},
     date : {<<"2024", "-", "01", "-", "15">>, <<"24", ".", "01", ".", "15">>}]

Bar == "|"

\* the digest input without trimming and lowercasing
normalized_raw(notice) ==
    notice.campus \o <<Bar>> \o notice.department_id \o <<Bar>> \o notice.board_id \o <<Bar>>
        \o unwrap_or_empty(notice.source_id) \o <<Bar>> \o notice.link

\* the digest input of canonical_id
normalized(notice) ==
    lowercase(trim(notice.campus)) \o <<Bar>>
        \o lowercase(trim(notice.department_id)) \o <<Bar>>
        \o lowercase(trim(notice.board_id)) \o <<Bar>>
        \o lowercase(trim(unwrap_or_empty(notice.source_id))) \o <<Bar>>
        \o lowercase(trim(notice.link))

\* Notice::normalized_date: separators become "-", a two-digit year becomes 20YY
normalized_date(notice) ==
    LET cleaned == [i \in 1..Len(notice.date) |->
                        IF notice.date[i] \in {".", "/"} THEN "-" ELSE notice.date[i]]
    IN  IF Len(cleaned) = 5 /\ cleaned[1] \in {"24"}
        THEN <<"20" \o cleaned[1]>> \o Tail(cleaned)
        ELSE cleaned

\* replace("-", "")
date_part(notice) == SelectSeq(normalized_date(notice), LAMBDA x : x # "-")

\* the first 6 hex characters of a digest
HashParts == {"000000", "ffffff"}

\* canonical_id with the model's SHA-256
CanonicalId(notice, hash) == [date_part |-> date_part(notice), hash_part |-> hash[normalized(notice)]]

CidInit ==
    /\ EarlyIdle
    /\ KeyIdle
    /\ CfgIdle
    /\ IdxIdle
    /\ cid_a \in CidNotices
    /\ cid_b = cid_a
    /\ cid_hash = <<>>
    /\ cid_ids = <<>>

IdFields == {"campus", "department_id", "board_id", "source_id", "link"}

FieldValues(f) ==
    CASE f = "campus" -> Campuses
      [] f = "department_id" -> DepartmentIds
      [] f = "board_id" -> CidBoardIds
      [] f = "source_id" -> SourceIds
      [] f = "link" -> Links
      [] f = "date" -> Dates

\* a second notice that differs from the first in one field
OtherNotice(f, v) ==
    /\ cid_ids = <<>>
    /\ cid_b = cid_a
    /\ v \in FieldValues(f)
    /\ v # cid_a[f]
    /\ cid_b' = [cid_a EXCEPT ![f] = v]
    /\ UNCHANGED <<earlyVars, notCidVars, cid_a, cid_hash, cid_ids>>

\* canonical_id of both notices; SHA-256 is some function of the digest input
ComputeIds ==
    /\ cid_ids = <<>>
    /\ \E hash \in [{normalized(cid_a), normalized(cid_b)} -> HashParts] :
            /\ cid_hash' = hash
            /\ cid_ids' = <<CanonicalId(cid_a, hash), CanonicalId(cid_b, hash)>>
    /\ UNCHANGED <<earlyVars, notCidVars, cid_a, cid_b>>

CidNext ==
    \/ \E f \in IdFields \cup {"date"} : \E v \in FieldValues(f) : OtherNotice(f, v)
    \/ ComputeIds

SpecCid == CidInit /\ [][CidNext]_vars

DifferingFields == {f \in IdFields : cid_a[f] # cid_b[f]}

\* C22 as stated: notices that differ in one field of the id tuple have different ids,
\* and notices with equal fields have equal ids.
C22_IdsDistinguishFields ==
    cid_ids # <<>> =>
        /\ (Cardinality(DifferingFields) = 1 => cid_ids[1] # cid_ids[2])
        /\ (cid_a = cid_b => cid_ids[1] = cid_ids[2])

\* a field of the id tuple as the digest sees it
Folded(notice, f) ==
    lowercase(trim(IF f = "source_id" THEN unwrap_or_empty(notice.source_id) ELSE notice[f]))

SameDay(a, b) == date_part(a) = date_part(b)

\* C22: notices whose id fields are equal after trimming and lowercasing (an absent
\* source_id counting as empty) and whose date parts are equal have equal ids, and
\* notices with different date parts have different ids.
C22_IdsOfFoldedFields ==
    cid_ids # <<>> =>
        /\ ((\A f \in IdFields : Folded(cid_a, f) = Folded(cid_b, f)) /\ SameDay(cid_a, cid_b)
                => cid_ids[1] = cid_ids[2])
        /\ (~SameDay(cid_a, cid_b) => cid_ids[1] # cid_ids[2])

C22_Witness ==
    /\ cid_ids # <<>>
    /\ cid_a.campus = <<"a">>
    /\ cid_b.campus = <<Space, "a">>
    /\ cid_ids[1] = cid_ids[2]
    /\ cid_hash[normalized(cid_a)] = "ffffff"

\* ---------------------------------------------------------------------------
\* Config::validate (models/config.rs)
\* ---------------------------------------------------------------------------

\* "", " " and a text
Texts == {<<>>, <<Space>>, <<"x">>}

\* u64 / usize values: zero and a positive one
Numbers == {0, 1}

Configs ==
    [user_agent : Texts, timeout_secs : Numbers, sitemap_timeout_secs : Numbers,
     request_delay_ms : Numbers, max_concurrent : Numbers,
     output_dir : {<<>>, <<"x">>}, departments_file : {<<"x">>},
     departments_boards_file : {<<"x">>}, manual_review_file : {<<Space>>, <<"x">>},
     max_board_name_length : Numbers]

validation(message) == [err |-> message]

\* Config::validate
validate_config(config) ==
    IF trim(config.user_agent) = <<>> THEN validation("crawler.user_agent is empty")
    ELSE IF config.timeout_secs = 0 THEN validation("crawler.timeout_secs must be > 0")
    ELSE IF config.sitemap_timeout_secs = 0
        THEN validation("crawler.sitemap_timeout_secs must be > 0")
    ELSE IF config.max_concurrent = 0 THEN validation("crawler.max_concurrent must be > 0")
    ELSE IF trim(config.output_dir) = <<>> THEN validation("paths.output_dir is empty")
    ELSE IF trim(config.departments_file) = <<>>
        THEN validation("paths.departments_file is empty")
    ELSE IF trim(config.departments_boards_file) = <<>>
        THEN validation("paths.departments_boards_file is empty")
    ELSE IF trim(config.manual_review_file) = <<>>
        THEN validation("paths.manual_review_file is empty")
    ELSE IF config.max_board_name_length = 0
        THEN validation("discovery.max_board_name_length must be > 0")
    ELSE Ok

CfgInit ==
    /\ EarlyIdle
    /\ KeyIdle
    /\ CidIdle
    /\ IdxIdle
    /\ cfg_config \in Configs
    /\ cfg_result = <<>>

ValidateConfig ==
    /\ cfg_result = <<>>
    /\ cfg_result' = validate_config(cfg_config)
    /\ UNCHANGED <<earlyVars, notCfgVars, cfg_config>>

CfgNext == ValidateConfig

SpecCfg == CfgInit /\ [][CfgNext]_vars

NumericFields ==
    {"timeout_secs", "sitemap_timeout_secs", "request_delay_ms", "max_concurrent",
     "max_board_name_length"}

\* C23: validate returns an error whenever the user agent is blank or one of the
\* numeric fields timeout_secs, sitemap_timeout_secs, request_delay_ms, max_concurrent,
\* max_board_name_length is 0.
C23_ValidateRejects ==
    cfg_result # <<>> =>
        ((trim(cfg_config.user_agent) = <<>> \/ (\E f \in NumericFields : cfg_config[f] = 0))
            => cfg_result # Ok)

C23_Witness ==
    /\ cfg_result # <<>>
    /\ cfg_result # Ok
    /\ cfg_config.user_agent = <<"x">>
    /\ cfg_config.max_board_name_length = 0
    /\ cfg_config.request_delay_ms = 1

\* ---------------------------------------------------------------------------
\* Inverted index (pipeline/index.rs)
\* ---------------------------------------------------------------------------
\* A text is the sequence of its words as unicode_words yields them; a word is a
\* sequence of characters. "HAK", "MIT", "JANG" and "UI" stand for Hangul syllables.

min_token_length == 2

max_tokens_per_notice == 50

index_metadata == TRUE

Hangul == {"HAK", "MIT", "JANG", "UI"}

\* char::len_utf8
len_utf8(c) == IF c \in Hangul THEN 3 ELSE 1

\* str::len: the length in bytes
RECURSIVE byte_len(_)
byte_len(word) == IF word = <<>> THEN 0 ELSE len_utf8(Head(word)) + byte_len(Tail(word))

\* the words of STOPWORDS that the model's texts can hold
STOPWORDS == {<<"MIT">>, <<"UI">>, <<"a">>, <<"a", "n">>}

is_stopword(word) == word \in STOPWORDS

\* IndexBuilder::tokenize
tokenize(text) ==
    LET lowered == [i \in 1..Len(text) |-> lowercase(text[i])]
    IN  SelectSeq(lowered,
                  LAMBDA word : byte_len(word) >= min_token_length /\ ~is_stopword(word))

RECURSIVE InsertAll(_, _, _)
InsertAll(index, tokens, id) ==
    IF tokens = <<>> THEN index
    ELSE LET token == Head(tokens)
             ids == IF token \in DOMAIN index THEN index[token] ELSE {}
         IN  InsertAll(MapInsert(index, token, ids \cup {id}), Tail(tokens), id)

\* IndexBuilder::add_notice
add_notice(builder, notice) ==
    LET metadata == IF index_metadata
                    THEN tokenize(notice.campus) \o tokenize(notice.department_name)
                             \o tokenize(notice.board_name)
                             \o (IF notice.college # <<>> THEN tokenize(notice.college)
                                 ELSE <<>>)
                    ELSE <<>>
        tokens == tokenize(notice.title) \o metadata
        kept == SubSeq(tokens, 1, IF Len(tokens) < max_tokens_per_notice THEN Len(tokens)
                                  ELSE max_tokens_per_notice)
    IN  [index |-> InsertAll(builder.index, kept, notice.id),
         notice_count |-> builder.notice_count + 1]

\* a build that leaves the ids in the order of the hash set
build_unsorted(builder) ==
    [version |-> 1,
     notice_count |-> builder.notice_count,
     token_count |-> Cardinality(DOMAIN builder.index),
     index |-> [k \in DOMAIN builder.index |-> HashOrder(builder.index[k])]]

\* IndexBuilder::build
build(builder) ==
    [version |-> 1,
     notice_count |-> builder.notice_count,
     token_count |-> Cardinality(DOMAIN builder.index),
     index |-> [k \in DOMAIN builder.index |-> SortBy(IdLess, HashOrder(builder.index[k]))]]

IndexWords == {<<"a">>, <<"c", "d">>, <<"A", "n">>, <<"HAK">>, <<"MIT">>, <<"JANG", "HAK">>}

IndexTitles == {<<>>} \cup {<<w>> : w \in IndexWords} \cup {<<<<"c", "d">>, w>> : w \in IndexWords}

IndexNotice(id, title, college) ==
    [id |-> id, title |-> title, campus |-> <<<<"UI">>>>, department_name |-> <<<<"c", "s">>>>,
     board_name |-> <<<<"d">>>>, college |-> college]

FirstNotices ==
    {IndexNotice(id, title, college) :
        id \in {"a", "b"}, title \in IndexTitles, college \in {<<>>, <<<<"HAK">>>>}}

SecondNotices == {IndexNotice("a", <<w>>, <<>>) : w \in IndexWords}

IdxInit ==
    /\ EarlyIdle
    /\ KeyIdle
    /\ CidIdle
    /\ CfgIdle
    /\ idx_notices \in {<<>>} \cup {<<n>> : n \in FirstNotices}
                        \cup {<<n, m>> : n \in FirstNotices, m \in SecondNotices}
    /\ idx_builder = NewIndexBuilder
    /\ idx_result = None

\* add_notices: one iteration
AddNotice ==
    /\ idx_result = None
    /\ idx_builder.notice_count < Len(idx_notices)
    /\ idx_builder' = add_notice(idx_builder, idx_notices[idx_builder.notice_count + 1])
    /\ UNCHANGED <<earlyVars, notIdxVars, idx_notices, idx_result>>

\* build_index: build after every notice was added
Build ==
    /\ idx_result = None
    /\ idx_builder.notice_count = Len(idx_notices)
    /\ idx_result' = Some(build(idx_builder))
    /\ UNCHANGED <<earlyVars, notIdxVars, idx_notices, idx_builder>>

IdxNext == AddNotice \/ Build

SpecIdx == IdxInit /\ [][IdxNext]_vars

NoDuplicates(ids) == \A i, j \in 1..Len(ids) : ids[i] = ids[j] => i = j

StrictlySorted(ids) == \A i \in 1..(Len(ids) - 1) : IdLess(ids[i], ids[i + 1])

InputIds == {idx_notices[i].id : i \in 1..Len(idx_notices)}

\* C24: in the index build returns, every value list is sorted, has no duplicates and
\* holds only ids of input notices; notice_count is the number of input notices and
\* token_count the number of keys.
C24_IndexWellFormed ==
    idx_result # None =>
        LET r == idx_result.v
        IN  /\ \A k \in DOMAIN r.index :
                  /\ StrictlySorted(r.index[k])
                  /\ NoDuplicates(r.index[k])
                  /\ \A i \in 1..Len(r.index[k]) : r.index[k][i] \in InputIds
            /\ r.notice_count = Len(idx_notices)
            /\ r.token_count = Cardinality(DOMAIN r.index)

C24_Witness ==
    /\ idx_result # None
    /\ Len(idx_notices) = 2
    /\ idx_notices[1].id = "b"
    /\ <<"c", "d">> \in DOMAIN idx_result.v.index
    /\ idx_result.v.index[<<"c", "d">>] = <<"a", "b">>
    /\ idx_result.v.token_count = 2

\* C25: no key of the index is a stop-word and no key has fewer than min_token_length
\* characters, for titles and metadata in any script.
C25_KeysFiltered ==
    idx_result # None =>
        \A k \in DOMAIN idx_result.v.index : ~is_stopword(k) /\ Len(k) >= min_token_length

C25_Witness ==
    /\ idx_result # None
    /\ Len(idx_notices) = 1
    /\ idx_notices[1].title = <<<<"c", "d">>, <<"A", "n">>>>
    /\ DOMAIN idx_result.v.index = {<<"c", "d">>, <<"c", "s">>}

\* ---------------------------------------------------------------------------
\* BoardDiscoveryService::discover: manual review
\* ---------------------------------------------------------------------------

\* C26: discover returns a manual-review item if and only if it returns no board,
\* on every path: invalid or NOT_FOUND homepage URL, failed homepage fetch, and
\* no board found on homepage and sitemap.
C26_ManualReviewIffNoBoards ==
    disc_pc = "done" => (disc_result.manual_review # None <=> disc_result.boards = <<>>)

C26_Witness ==
    /\ disc_pc = "done"
    /\ disc_document # <<>>
    /\ disc_sitemap # None
    /\ disc_result.boards = <<>>
    /\ disc_result.manual_review = ManualReview("no_boards")

\* ---------------------------------------------------------------------------
\* write_snapshot: previous.json
\* ---------------------------------------------------------------------------

PreviousPointer == ReadOptional(previous_pointer_key)

\* C27: calls run one at a time, any write may fail: after the calls, whenever
\* previous.json and latest.json both exist they name different versions (previous.json holds what
\* latest.json held before it was last advanced), and as long as no call found a
\* latest.json, a first commit included, previous.json does not exist.
C27_PreviousIsFormerLatest ==
    (\A p \in Procs : ~Running(p)) =>
        /\ (Latest # None /\ PreviousPointer # None) => PreviousPointer.v # Latest.v
        /\ (\A p \in Procs : start_latest[p] = None) => PreviousPointer = None

C27_Witness ==
    /\ pc[1] = "ok"
    /\ pc[2] = "ok"
    /\ PreviousPointer = Some(SnapshotPointer(Version(1)))
    /\ Latest = Some(SnapshotPointer(Version(2)))

\* ---------------------------------------------------------------------------
\* fetch_all: the selectors a board is parsed with
\* ---------------------------------------------------------------------------

\* the BoardSelectors compiled from the selector strings of one board
OwnSelectors(board) == build_selector_cache(<<board>>).cache[board.id]

SameSelectors(a, b) ==
    /\ a.row = b.row
    /\ a.title = b.title
    /\ a.date = b.date
    /\ a.author = b.author
    /\ a.link = b.link

\* C28: every board fetch_all crawls is parsed with the selectors compiled from its
\* own selector strings, also when two boards of the site map share a board id.
C28_OwnSelectors ==
    \A f \in 1..Len(cr_log) :
        cr_log[f].ok => SameSelectors(cr_log[f].selectors, OwnSelectors(cr_site[cr_log[f].board]))

C28_Witness ==
    /\ cr_pc = "done"
    /\ Len(cr_site) = 2
    /\ cr_site[1].id = cr_site[2].id
    /\ cr_site[1].selectors.link_selector # cr_site[2].selectors.link_selector
    /\ Len(cr_log) = 2
    /\ \A f \in 1..2 : cr_log[f].ok

\* ---------------------------------------------------------------------------
\* write_snapshot: two calls at the same time
\* ---------------------------------------------------------------------------

\* what the concurrent calls are given
ConcurrentOutcomes == {o \in Outcomes : Len(o.notices) = 0}

\* write_snapshot is called while another call may be running
BeginConcurrent(p, o) ==
    /\ pc[p] = "idle"
    /\ input' = [input EXCEPT ![p] = o]
    /\ start_latest' = [start_latest EXCEPT ![p] = ReadOptional(pointer_key)]
    /\ pc' = [pc EXCEPT ![p] = "in_progress"]
    /\ jobs' = [jobs EXCEPT ![p] = JobsInit(1)]
    /\ UNCHANGED <<backend, fs, previous_pointer, previous_items, manifest_entries, log, nonStoreVars>>

NextConcurrent ==
    \/ \E p \in Procs, o \in ConcurrentOutcomes : BeginConcurrent(p, o)
    \/ \E p \in Procs, j \in 1..MaxNotices : WriteStep(p, j)
    \/ \E p \in Procs : ReadPointer(p)
    \/ \E p \in Procs : ReadPreviousIndex(p)
    \/ \E p \in Procs : ReadFail(p)
    \/ \E p \in Procs : RemoveInProgress(p)

SpecConcurrent == Init /\ [][NextConcurrent]_vars

\* latest.json names a committed version, and a call that returned Ok has committed
ConcurrentSafe ==
    /\ Latest # None => (Latest.v.kind = "pointer" /\ Committed(Latest.v.version))
    /\ \A p \in Procs : pc[p] = "ok" => Committed(Version(p))

\* C29 as stated: two concurrent calls, either backend: latest.json, whenever it
\* exists, names a version whose _SUCCESS exists, and each call returns Ok with its
\* version committed or returns an error.
C29_ConcurrentSafe == ConcurrentSafe

\* C29: the same for two concurrent calls on the S3 backend.
C29_ConcurrentSafeOnS3 == backend = "s3" => ConcurrentSafe

\* both calls ran interleaved and returned Ok
C29_Witness ==
    /\ backend = "s3"
    /\ \A p \in Procs : pc[p] = "ok" /\ start_latest[p] = None
    /\ Latest = Some(SnapshotPointer(Version(1)))

\* ---------------------------------------------------------------------------
\* write_snapshot: aux/diff.json
\* ---------------------------------------------------------------------------

\* the item a list holds for an id (the last one, should the id occur twice)
ItemOf(items, id) == LastWith(items, id)

\* C30: in aux/diff.json added, updated and removed are pairwise disjoint, and an id
\* is in updated exactly when it is in the previous index/all.json and in the current
\* notices, both items carry a content hash and the hashes differ.
C30_UpdatedIffHashesDiffer ==
    diff_aux # None =>
        LET added == SeqRange(diff_aux.v.added)
            updated == SeqRange(diff_aux.v.updated)
            removed == SeqRange(diff_aux.v.removed)
            current == IndexItems(diff_current)
        IN  /\ added \cap updated = {}
            /\ added \cap removed = {}
            /\ updated \cap removed = {}
            /\ \A id \in DiffIds :
                   id \in updated <=>
                       /\ id \in Ids(diff_stored)
                       /\ id \in Ids(diff_current)
                       /\ ItemOf(diff_stored, id).content_hash # None
                       /\ ItemOf(current, id).content_hash # None
                       /\ ItemOf(diff_stored, id).content_hash # ItemOf(current, id).content_hash

\* one id changed and reported, another changed whose previous item has no hash
C30_Witness ==
    /\ diff_aux # None
    /\ Len(diff_stored) = 2
    /\ diff_stored[1].id = "a"
    /\ diff_stored[1].content_hash # None
    /\ diff_stored[2].id = "b"
    /\ diff_stored[2].content_hash = None
    /\ Ids(diff_current) = {"a", "b"}
    /\ diff_current[1].title # diff_previous[1].title
    /\ diff_current[2].title # diff_previous[2].title
    /\ diff_current[1].id = "a"
    /\ diff_aux.v.updated = <<"a">>

====
